---------------------------- MODULE Spec2Model ----------------------------
(***************************************************************************)
(* A model of the text-to-video scripts:                                   *)
(*   - app.py: generate a script, dry-run it, and repair it with the text  *)
(*     model until it runs (main, generate_manim_script, debug_code);      *)
(*   - pipeline.py: fix_gemini_json, the clean-up of the model's JSON,     *)
(*     validate_storyboard, and main with its storyboard requests;         *)
(*   - script_with_noobject.py: storyboard_to_manim_code, the storyboard   *)
(*     compiler with its row layout;                                       *)
(*   - pipeline_with_audio.py: request_storyboard_from_gemini;             *)
(*   - pipeline_new.py: main with its script requests;                     *)
(*   - script_with_noobject.py and pipeline.py: load_allowed_classes, and  *)
(*     extract_json, the first step on the model's storyboard text.        *)
(* Each part has its own specification over the shared variables; the     *)
(* variables of the other parts stay at their initial values.              *)
(***************************************************************************)
EXTENDS Integers, Sequences, FiniteSets, TLC

VARIABLES
    \* ---- app.py: one run of main() ----
    pc,             \* position in main / debug_code
    max_retries,    \* debug_code's max_retries argument
    script_code,    \* main's script_code
    fixed_code,     \* debug_code's fixed_code
    error_history,  \* debug_code's error_history
    attempt,        \* debug_code's attempt
    prompt,         \* the correction request last sent to the text model
    raised,         \* the exception that ended the run, if any
    written,        \* the content of <topic>.py, <<>> while not written
    rendered,       \* what manim was run on, <<>> while not run
    execs,          \* number of exec() calls made so far
    last_exec,      \* the source and the outcome of the latest exec() call
    \* ---- pipeline.py: fix_gemini_json ----
    spc,            \* position of the sanitizer run
    raw,            \* the raw model text, a sequence of characters
    cleaned,        \* fix_gemini_json(raw)
    recleaned,      \* fix_gemini_json(cleaned)
    \* ---- script_with_noobject.py: storyboard_to_manim_code ----
    cpc,            \* position of the compiler run
    storyboard,     \* the parsed storyboard
    script_lines,   \* the statements of the compiled script
    saved,          \* the content of generated_script.py, <<>> while not written
    \* ---- pipeline.py: one run of main() ----
    ppc,            \* position in main
    p_attempt,      \* main's attempt
    p_calls,        \* number of storyboard requests made so far
    parsed,         \* json.loads(cleaned), as it was before validation
    p_storyboard,   \* main's storyboard after validate_storyboard
    p_raised,       \* the class of the exception that ended the run, if any
    p_saved,        \* the content of generated_script.py, <<>> while not written
    p_rendered,     \* what manim was run on, <<>> while not run
    \* ---- pipeline_with_audio.py: request_storyboard_from_gemini ----
    apc,            \* position in the function
    a_attempt,      \* its attempt
    a_calls,        \* number of storyboard requests made so far
    a_raised,       \* the class of the exception it raised, if any
    \* ---- pipeline_new.py: one run of main() ----
    npc,            \* position in main
    n_attempt,      \* main's attempt
    n_calls,        \* number of script requests made so far
    manim_script,   \* main's manim_script
    n_saved,        \* the content of generated_script.py, <<>> while not written
    n_rendered,     \* what manim was run on, <<>> while not run
    \* ---- script_with_noobject.py: main, up to the extracted JSON text ----
    fpc,            \* position in main
    csv_rows,       \* the rows csv.reader yields for CSV_FILE
    allowed_classes,\* load_allowed_classes(CSV_FILE)
    storyboard_text,\* the text model's answer, a sequence of characters
    extracted       \* extract_json(storyboard_text)

appVars == <<pc, max_retries, script_code, fixed_code, error_history, attempt,
             prompt, raised, written, rendered, execs, last_exec>>
sanVars == <<spc, raw, cleaned, recleaned>>
compVars == <<cpc, storyboard, script_lines, saved>>
pipeVars == <<ppc, p_attempt, p_calls, parsed, p_storyboard, p_raised, p_saved,
              p_rendered>>
audioVars == <<apc, a_attempt, a_calls, a_raised>>
newVars == <<npc, n_attempt, n_calls, manim_script, n_saved, n_rendered>>
frontVars == <<fpc, csv_rows, allowed_classes, storyboard_text, extracted>>
vars == <<appVars, sanVars, compVars, pipeVars, audioVars, newVars, frontVars>>

\* ------------------------------------------------------------------------
\* Generic helpers
\* ------------------------------------------------------------------------
Range(s) == {s[i] : i \in 1..Len(s)}

IsPrefix(s, t) == Len(s) <= Len(t) /\ SubSeq(t, 1, Len(s)) = s

RECURSIVE Flatten(_)
Flatten(ss) == IF ss = <<>> THEN <<>> ELSE Head(ss) \o Flatten(Tail(ss))

SeqsUpTo(S, n) == UNION {[1..k -> S] : k \in 0..n}

\* ------------------------------------------------------------------------
\* app.py
\* ------------------------------------------------------------------------
\* Bound on the max_retries argument debug_code is called with (main calls
\* it with the default).
MaxBudget == 3

\* debug_code's default max_retries.
DefaultMaxRetries == 5

\* Scripts the text model may return; "NoScene" holds no Scene subclass.
Codes == {"codeA", "codeB", "NoScene"}

\* Tracebacks an exec() may end with.
Diagnostics == {"err1", "err2"}

NoCode == "-"

\* An argument of an exception: a string or a list of strings.
StrArg(str) == [tag |-> "str", str |-> str, list |-> <<>>]
ListArg(list) == [tag |-> "list", str |-> "", list |-> list]

\* An exception value: its class and its args.
Exc(type, args) == [type |-> type, args |-> args]
NoException == Exc("none", <<>>)

\* resp.text of the text model: not JSON, JSON without a "code" key, or
\* JSON {"code": c}.
Responses ==
    {[kind |-> "garbage", code |-> NoCode], [kind |-> "json_no_code", code |-> NoCode]}
        \cup {[kind |-> "json", code |-> c] : c \in Codes}

\* exec(code, {}): returns, raises an Exception with a traceback, or raises
\* a BaseException that `except Exception` does not catch (SystemExit).
ExecOutcomes ==
    {[result |-> "ok", tb |-> "-"], [result |-> "SystemExit", tb |-> "-"]}
        \cup {[result |-> "Exception", tb |-> d] : d \in Diagnostics}

\* A prompt that holds only the latest failure.
BuildPromptLatestOnly(code, history) ==
    [current_code |-> code, error_history |-> <<history[Len(history)]>>]

\* A prompt that leaves the code out.
BuildPromptNoCode(code, history) == [current_code |-> NoCode, error_history |-> history]

\* The part of debug_code's prompt that varies: current_code, error_history.
BuildPrompt(code, history) == [current_code |-> code, error_history |-> history]

NoPrompt == [current_code |-> NoCode, error_history |-> <<>>]

MaxRetriesMessage == "Max retries reached. Could not fix the code automatically."

\* An error that takes the history along.
ExhaustedErrorWithHistory(history) ==
    Exc("RuntimeError", <<StrArg(MaxRetriesMessage), ListArg(history)>>)

\* raise RuntimeError("Max retries reached ...") at the end of debug_code.
ExhaustedError(history) == Exc("RuntimeError", <<StrArg(MaxRetriesMessage)>>)

\* A loop guard that lets one more correction through.
WhileConditionInclusive(att, budget) == att <= budget

\* while attempt < max_retries
WhileCondition(att, budget) == att < budget

\* A handler that records the parse failure and goes on with the loop.
OnParseErrorRecorded(kind, history) ==
    [pc |-> "debug_while", raised |-> NoException,
     error_history |-> Append(history, "parse_error")]

\* debug_code's handling of a response that is not JSON ("garbage":
\* except json.JSONDecodeError ... raise e) or has no "code" key (the
\* KeyError is not caught): where the run goes, what is raised, and the
\* history afterwards.
OnParseError(kind, history) ==
    [pc |-> "raised",
     raised |-> IF kind = "garbage" THEN Exc("JSONDecodeError", <<>>)
                ELSE Exc("KeyError", <<StrArg("code")>>),
     error_history |-> history]

\* A history that keeps only the latest failure.
RecordLatestOnly(history, new_error) == <<new_error>>

\* except Exception: ... error_history.append(new_error)
RecordDiagnostic(history, new_error) == Append(history, new_error)

\* A debug_code that returns the code it was given.
DebugResultStale(code, fixed) == code

\* return fixed_code (debug_code's result on a successful dry run).
DebugResult(code, fixed) == fixed

\* "(Scene)" in a class line of the script.
HasSceneClass(code) == code # "NoScene"

AppInit ==
    /\ pc = "main_input"
    /\ max_retries \in (0..MaxBudget) \cup {DefaultMaxRetries}
    /\ script_code = NoCode
    /\ fixed_code = NoCode
    /\ error_history = <<>>
    /\ attempt = 0
    /\ prompt = NoPrompt
    /\ raised = NoException
    /\ written = <<>>
    /\ rendered = <<>>
    /\ execs = 0
    /\ last_exec = [code |-> NoCode, result |-> "-"]

AppIdle ==
    /\ pc = "idle"
    /\ max_retries = 0
    /\ script_code = NoCode
    /\ fixed_code = NoCode
    /\ error_history = <<>>
    /\ attempt = 0
    /\ prompt = NoPrompt
    /\ raised = NoException
    /\ written = <<>>
    /\ rendered = <<>>
    /\ execs = 0
    /\ last_exec = [code |-> NoCode, result |-> "-"]

\* main: topic = input(...).strip(); an empty topic returns at once.
MainInput ==
    /\ pc = "main_input"
    /\ \E empty \in BOOLEAN : pc' = IF empty THEN "exit" ELSE "generate"
    /\ UNCHANGED <<max_retries, script_code, fixed_code, error_history, attempt,
                   prompt, raised, written, rendered, execs, last_exec>>
    /\ UNCHANGED <<sanVars, compVars, pipeVars, audioVars, newVars, frontVars>>

\* generate_manim_script: json.loads(resp.text)["code"].
GenerateManimScript ==
    /\ pc = "generate"
    /\ \E resp \in Responses :
         \/ /\ resp.kind = "garbage"
            /\ raised' = Exc("JSONDecodeError", <<>>)
            /\ pc' = "raised"
            /\ UNCHANGED script_code
         \/ /\ resp.kind = "json_no_code"
            /\ raised' = Exc("KeyError", <<StrArg("code")>>)
            /\ pc' = "raised"
            /\ UNCHANGED script_code
         \/ /\ resp.kind = "json"
            /\ script_code' = resp.code
            /\ pc' = "main_exec"
            /\ UNCHANGED raised
    /\ UNCHANGED <<max_retries, fixed_code, error_history, attempt, prompt,
                   written, rendered, execs, last_exec>>
    /\ UNCHANGED <<sanVars, compVars, pipeVars, audioVars, newVars, frontVars>>

\* main: exec(script_code, {}); on an Exception, debug_code(topic,
\* script_code, traceback) starts: error_history = [error], attempt = 0,
\* fixed_code = code.
MainExec ==
    /\ pc = "main_exec"
    /\ \E out \in ExecOutcomes :
         /\ execs' = execs + 1
         /\ last_exec' = [code |-> script_code, result |-> out.result]
         /\ \/ /\ out.result = "ok"
               /\ pc' = "main_write"
               /\ UNCHANGED <<error_history, fixed_code, raised>>
            \/ /\ out.result = "Exception"
               /\ error_history' = <<out.tb>>
               /\ fixed_code' = script_code
               /\ pc' = "debug_while"
               /\ UNCHANGED raised
            \/ /\ out.result = "SystemExit"
               /\ raised' = Exc("SystemExit", <<>>)
               /\ pc' = "raised"
               /\ UNCHANGED <<error_history, fixed_code>>
    /\ UNCHANGED <<max_retries, script_code, attempt, prompt, written, rendered>>
    /\ UNCHANGED <<sanVars, compVars, pipeVars, audioVars, newVars, frontVars>>

\* debug_code: while attempt < max_retries: attempt += 1; build the prompt
\* and send it.
DebugRequest ==
    /\ pc = "debug_while"
    /\ WhileCondition(attempt, max_retries)
    /\ attempt' = attempt + 1
    /\ prompt' = BuildPrompt(fixed_code, error_history)
    /\ pc' = "debug_parse"
    /\ UNCHANGED <<max_retries, script_code, fixed_code, error_history, raised,
                   written, rendered, execs, last_exec>>
    /\ UNCHANGED <<sanVars, compVars, pipeVars, audioVars, newVars, frontVars>>

\* debug_code: the loop ends without a successful dry run.
DebugExhausted ==
    /\ pc = "debug_while"
    /\ ~WhileCondition(attempt, max_retries)
    /\ raised' = ExhaustedError(error_history)
    /\ pc' = "raised"
    /\ UNCHANGED <<max_retries, script_code, fixed_code, error_history, attempt,
                   prompt, written, rendered, execs, last_exec>>
    /\ UNCHANGED <<sanVars, compVars, pipeVars, audioVars, newVars, frontVars>>

\* debug_code: result = json.loads(resp.text); fixed_code = result["code"];
\* a JSONDecodeError is printed and raised again, a KeyError is not caught.
DebugParse ==
    /\ pc = "debug_parse"
    /\ \E resp \in Responses :
         \/ /\ resp.kind # "json"
            /\ pc' = OnParseError(resp.kind, error_history).pc
            /\ raised' = OnParseError(resp.kind, error_history).raised
            /\ error_history' = OnParseError(resp.kind, error_history).error_history
            /\ UNCHANGED fixed_code
         \/ /\ resp.kind = "json"
            /\ fixed_code' = resp.code
            /\ pc' = "debug_exec"
            /\ UNCHANGED <<raised, error_history>>
    /\ UNCHANGED <<max_retries, script_code, attempt, prompt,
                   written, rendered, execs, last_exec>>
    /\ UNCHANGED <<sanVars, compVars, pipeVars, audioVars, newVars, frontVars>>

\* debug_code: exec(fixed_code, {}); success returns fixed_code to main,
\* which assigns it to script_code; an Exception is appended to the history.
DebugExec ==
    /\ pc = "debug_exec"
    /\ \E out \in ExecOutcomes :
         /\ execs' = execs + 1
         /\ last_exec' = [code |-> fixed_code, result |-> out.result]
         /\ \/ /\ out.result = "ok"
               /\ script_code' = DebugResult(script_code, fixed_code)
               /\ pc' = "main_write"
               /\ UNCHANGED <<error_history, raised>>
            \/ /\ out.result = "Exception"
               /\ error_history' = RecordDiagnostic(error_history, out.tb)
               /\ pc' = "debug_while"
               /\ UNCHANGED <<script_code, raised>>
            \/ /\ out.result = "SystemExit"
               /\ raised' = Exc("SystemExit", <<>>)
               /\ pc' = "raised"
               /\ UNCHANGED <<script_code, error_history>>
    /\ UNCHANGED <<max_retries, fixed_code, attempt, prompt, written, rendered>>
    /\ UNCHANGED <<sanVars, compVars, pipeVars, audioVars, newVars, frontVars>>

\* main: write script_code to <topic>.py.
MainWrite ==
    /\ pc = "main_write"
    /\ written' = <<script_code>>
    /\ pc' = "main_find_class"
    /\ UNCHANGED <<max_retries, script_code, fixed_code, error_history, attempt,
                   prompt, raised, rendered, execs, last_exec>>
    /\ UNCHANGED <<sanVars, compVars, pipeVars, audioVars, newVars, frontVars>>

\* main: look for "class X(Scene)"; ValueError when there is none.
MainFindClass ==
    /\ pc = "main_find_class"
    /\ IF HasSceneClass(script_code)
         THEN pc' = "main_render" /\ UNCHANGED raised
         ELSE /\ raised' = Exc("ValueError", <<>>)
              /\ pc' = "raised"
    /\ UNCHANGED <<max_retries, script_code, fixed_code, error_history, attempt,
                   prompt, written, rendered, execs, last_exec>>
    /\ UNCHANGED <<sanVars, compVars, pipeVars, audioVars, newVars, frontVars>>

\* main: manim -pql <file> <class>; a CalledProcessError is printed only.
MainRender ==
    /\ pc = "main_render"
    /\ \E ok \in BOOLEAN :
         rendered' = <<[script |-> script_code, ok |-> ok]>>
    /\ pc' = "exit"
    /\ UNCHANGED <<max_retries, script_code, fixed_code, error_history, attempt,
                   prompt, raised, written, execs, last_exec>>
    /\ UNCHANGED <<sanVars, compVars, pipeVars, audioVars, newVars, frontVars>>

AppNext ==
    \/ MainInput
    \/ GenerateManimScript
    \/ MainExec
    \/ DebugRequest
    \/ DebugExhausted
    \/ DebugParse
    \/ DebugExec
    \/ MainWrite
    \/ MainFindClass
    \/ MainRender

\* ------------------------------------------------------------------------
\* pipeline.py: fix_gemini_json
\* A text is a sequence of characters.  "SOH" stands for the control
\* character 0x01 and "BQ" for the backquote; "\n" is both white space and
\* a control character.
\* ------------------------------------------------------------------------
\* Bound on the number of pieces a raw model text is made of.
MaxPieces == 3

OpenFence == <<"BQ", "BQ", "BQ", "j", "s", "o", "n">>
CloseFence == <<"BQ", "BQ", "BQ">>

\* The pieces raw model texts are built from.
Pieces ==
    { <<"{">>, <<"}">>, <<"[">>, <<"]">>, <<",">>, <<" ">>, <<"\n">>, <<"SOH">>,
      <<"a">>, <<"(", "1">>, <<"2", ")">>, OpenFence, CloseFence }

RawTexts == {Flatten(ps) : ps \in SeqsUpTo(Pieces, MaxPieces)}

\* \s of the re module, and what str.strip() strips.
IsSpace(c) == c \in {" ", "\n"}
\* [\x00-\x1f]
IsControl(c) == c \in {"\n", "SOH"}
\* \d
IsDigit(c) == c \in {"0", "1", "2", "3", "4", "5", "6", "7", "8", "9"}

\* text.count(c)
RECURSIVE Count(_, _)
Count(text, c) ==
    IF text = <<>> THEN 0
    ELSE (IF Head(text) = c THEN 1 ELSE 0) + Count(Tail(text), c)

\* pat occurs in text at index i.
OccursAt(text, pat, i) ==
    /\ i >= 1
    /\ i + Len(pat) - 1 <= Len(text)
    /\ SubSeq(text, i, i + Len(pat) - 1) = pat

\* The least index >= from where pat occurs in text, 0 when there is none.
FindFrom(text, pat, from) ==
    LET hits == {i \in from..Len(text) : OccursAt(text, pat, i)}
    IN  IF hits = {} THEN 0 ELSE CHOOSE i \in hits : \A j \in hits : i <= j

\* str.strip()
RECURSIVE LStrip(_)
LStrip(text) ==
    IF text # <<>> /\ IsSpace(Head(text)) THEN LStrip(Tail(text)) ELSE text

RECURSIVE RStrip(_)
RStrip(text) ==
    IF text # <<>> /\ IsSpace(text[Len(text)])
        THEN RStrip(SubSeq(text, 1, Len(text) - 1))
        ELSE text

Strip(text) == LStrip(RStrip(text))

\* An extraction that takes any fence, with the json tag or without it.
ExtractAnyFenced(text) ==
    LET open == FindFrom(text, CloseFence, 1)
        start == IF OccursAt(text, OpenFence, open)
                   THEN open + Len(OpenFence) ELSE open + Len(CloseFence)
        close == IF open = 0 THEN 0 ELSE FindFrom(text, CloseFence, start)
    IN  IF close = 0 THEN text ELSE Strip(SubSeq(text, start, close - 1))

\* fenced = re.search(r"(3 backquotes)json(.*?)(3 backquotes)", text, re.DOTALL);
\* if fenced: text = fenced.group(1).strip()
ExtractFenced(text) ==
    LET open == FindFrom(text, OpenFence, 1)
        close == IF open = 0 THEN 0
                 ELSE FindFrom(text, CloseFence, open + Len(OpenFence))
    IN  IF close = 0 THEN text
        ELSE Strip(SubSeq(text, open + Len(OpenFence), close - 1))

\* The index after the longest run of characters satisfying the class
\* that starts at i.
RECURSIVE SkipDigits(_, _)
SkipDigits(text, i) ==
    IF i <= Len(text) /\ IsDigit(text[i]) THEN SkipDigits(text, i + 1) ELSE i

RECURSIVE SkipSpaces(_, _)
SkipSpaces(text, i) ==
    IF i <= Len(text) /\ IsSpace(text[i]) THEN SkipSpaces(text, i + 1) ELSE i

\* A match of \((\d+),\s*(\d+)\) starting at i: its groups and the index
\* after it; ok = FALSE when there is none.
TupleMatch(text, i) ==
    LET a == i + 1
        b == SkipDigits(text, a)          \* text[b] must be ","
        c == SkipSpaces(text, b + 1)
        d == SkipDigits(text, c)          \* text[d] must be ")"
        ok == /\ i <= Len(text) /\ text[i] = "("
              /\ b > a
              /\ b <= Len(text) /\ text[b] = ","
              /\ d > c
              /\ d <= Len(text) /\ text[d] = ")"
    IN  IF ok
          THEN [ok |-> TRUE, g1 |-> SubSeq(text, a, b - 1),
                g2 |-> SubSeq(text, c, d - 1), next |-> d + 1]
          ELSE [ok |-> FALSE, g1 |-> <<>>, g2 |-> <<>>, next |-> i + 1]

\* re.sub(r"\((\d+),\s*(\d+)\)", r"[\1, \2]", text)
RECURSIVE TuplesToListsFrom(_, _)
TuplesToListsFrom(text, i) ==
    IF i > Len(text) THEN <<>>
    ELSE LET m == TupleMatch(text, i)
         IN  IF m.ok
               THEN <<"[">> \o m.g1 \o <<",", " ">> \o m.g2 \o <<"]">>
                        \o TuplesToListsFrom(text, m.next)
               ELSE <<text[i]>> \o TuplesToListsFrom(text, i + 1)

TuplesToLists(text) == TuplesToListsFrom(text, 1)

\* re.sub(r",(\s*[\]}])", r"\1", text)
RECURSIVE RemoveTrailingCommasFrom(_, _)
RemoveTrailingCommasFrom(text, i) ==
    IF i > Len(text) THEN <<>>
    ELSE LET k == SkipSpaces(text, i + 1)
             hit == /\ text[i] = ","
                    /\ k <= Len(text)
                    /\ text[k] \in {"]", "}"}
         IN  IF hit
               THEN SubSeq(text, i + 1, k) \o RemoveTrailingCommasFrom(text, k + 1)
               ELSE <<text[i]>> \o RemoveTrailingCommasFrom(text, i + 1)

RemoveTrailingCommas(text) == RemoveTrailingCommasFrom(text, 1)

\* re.sub(r"[\x00-\x1f]", "", text)
StripControl(text) == SelectSeq(text, LAMBDA c : ~IsControl(c))

\* "}" * n
Repeat(c, n) == [i \in 1..n |-> c]

\* A balancing step that appends a single closer.
AppendOneCloser(text, opener, closer) ==
    IF Count(text, opener) > Count(text, closer) THEN Append(text, closer) ELSE text

\* if open > close: text += closer * (open - close)
AppendClosers(text, opener, closer) ==
    LET open == Count(text, opener)
        close == Count(text, closer)
    IN  IF open > close THEN text \o Repeat(closer, open - close) ELSE text

\* The balancing at the end of fix_gemini_json: braces, then brackets.
Balance(text) == AppendClosers(AppendClosers(text, "{", "}"), "[", "]")

\* The text after the fence, tuple, comma and control-character steps.
PreBalance(text) ==
    StripControl(RemoveTrailingCommas(TuplesToLists(ExtractFenced(text))))

fix_gemini_json(text) == Balance(PreBalance(text))

SanInit ==
    /\ spc = "raw"
    /\ raw \in RawTexts
    /\ cleaned = <<>>
    /\ recleaned = <<>>

SanIdle ==
    /\ spc = "idle"
    /\ raw = <<>>
    /\ cleaned = <<>>
    /\ recleaned = <<>>

\* cleaned = fix_gemini_json(raw_storyboard)
Sanitize ==
    /\ spc = "raw"
    /\ cleaned' = fix_gemini_json(raw)
    /\ spc' = "cleaned"
    /\ UNCHANGED <<raw, recleaned>>
    /\ UNCHANGED <<appVars, compVars, pipeVars, audioVars, newVars, frontVars>>

\* The sanitizer applied to its own output.
Resanitize ==
    /\ spc = "cleaned"
    /\ recleaned' = fix_gemini_json(cleaned)
    /\ spc' = "recleaned"
    /\ UNCHANGED <<raw, cleaned>>
    /\ UNCHANGED <<appVars, compVars, pipeVars, audioVars, newVars, frontVars>>

SanNext == Sanitize \/ Resanitize

\* ------------------------------------------------------------------------
\* script_with_noobject.py: storyboard_to_manim_code
\* A string is the sequence of its tokens (a word, a digit, "_"), so that
\* a synthesized name and an explicit name given by the text model can be
\* compared.  Lengths are counted in halves of a scene unit (the buffer 0.5
\* is 1).  A dict is the sequence of its items in insertion order.
\* ------------------------------------------------------------------------
MAX_ROW_OBJECTS == 5
ROW_WIDTH_LIMIT == 12

\* The classes load_allowed_classes read from the CSV file.
Allowed ==
    [Scene |-> {<<"ThreeDScene">>, <<"MovingCameraScene">>},
     Mobject |-> {<<"Circle">>, <<"Square">>},
     Animation |-> {<<"FadeIn">>, <<"Create">>}]

DigitStr(d) ==
    CASE d = 0 -> "0" [] d = 1 -> "1" [] d = 2 -> "2" [] d = 3 -> "3"
      [] d = 4 -> "4" [] d = 5 -> "5" [] d = 6 -> "6" [] d = 7 -> "7"
      [] d = 8 -> "8" [] d = 9 -> "9"

\* str(n) of a natural number.
RECURSIVE NatStr(_)
NatStr(n) == IF n < 10 THEN <<DigitStr(n)>> ELSE NatStr(n \div 10) \o <<DigitStr(n % 10)>>

LowerToken(t) ==
    CASE t = "Circle" -> "circle" [] t = "Square" -> "square" [] t = "Blob" -> "blob"
      [] t = "FadeIn" -> "fadein" [] OTHER -> t

\* str.lower()
LowerStr(str) == [i \in 1..Len(str) |-> LowerToken(str[i])]

\* One statement of the generated script.
Line(stmt, name, callee, kwargs, args, num, den) ==
    [stmt |-> stmt, name |-> name, callee |-> callee, kwargs |-> kwargs,
     args |-> args, num |-> num, den |-> den]

\* An item of a kwargs dict: a number (in halves) or a string.
NumItem(key, n) == [key |-> key, num |-> n, str |-> <<>>]
StrItem(key, str) == [key |-> key, num |-> 0, str |-> str]

HasKey(d, key) == \E i \in 1..Len(d) : d[i].key = key
ItemOf(d, key) == d[CHOOSE i \in 1..Len(d) : d[i].key = key]
\* d.get(key, default)
GetNum(d, key, default) == IF HasKey(d, key) THEN ItemOf(d, key).num ELSE default
GetStr(d, key, default) == IF HasKey(d, key) THEN ItemOf(d, key).str ELSE default

allowed_keys ==
    {"radius", "side_length", "height", "fill_color", "fill_opacity",
     "stroke_color", "stroke_width", "font_size", "text", "x_range", "y_range",
     "axis_config", "color", "start", "end", "point", "matrix"}

\* A filter that lets every item through.
PassAllKwargs(kwargs) == kwargs

\* return {k: v for k, v in kwargs.items() if k in allowed_keys}
sanitize_mobject_kwargs(kwargs) == SelectSeq(kwargs, LAMBDA it : it.key \in allowed_keys)

\* A name counted from 0, with an underscore after the kind.
SynthNameZeroBased(mobj_type, idx, mobj_idx) ==
    LowerStr(mobj_type) \o <<"_">> \o NatStr(idx - 1) \o <<"_">> \o NatStr(mobj_idx - 1)

\* f"{mobj_type.lower()}{idx}_{mobj_idx}"
SynthName(mobj_type, idx, mobj_idx) ==
    LowerStr(mobj_type) \o NatStr(idx) \o <<"_">> \o NatStr(mobj_idx)

\* mobj.get("kwargs", {}).get("name", <synthesized>)
MobjName(mobj, idx, mobj_idx) ==
    GetStr(mobj.kwargs, "name", SynthName(mobj.type, idx, mobj_idx))

\* A size that falls back on the height.
ApproxSizeWithHeight(kwargs) ==
    GetNum(kwargs, "radius", GetNum(kwargs, "side_length", GetNum(kwargs, "height", 2)))

\* approx_size = kwargs.get("radius", kwargs.get("side_length", 1))
ApproxSize(kwargs) == GetNum(kwargs, "radius", GetNum(kwargs, "side_length", 2))

\* row_width += approx_size + 0.5
AddWidth(row_width, approx_size) == row_width + approx_size + 1

\* A row that closes whenever an object is added.
RowClosesAlways(row_count, row_width) == TRUE

\* A row that closes one object late.
RowClosesLate(row_count, row_width) ==
    row_count > MAX_ROW_OBJECTS \/ row_width > 2 * ROW_WIDTH_LIMIT

\* row_count >= MAX_ROW_OBJECTS or row_width > ROW_WIDTH_LIMIT
RowCloses(row_count, row_width) ==
    row_count >= MAX_ROW_OBJECTS \/ row_width > 2 * ROW_WIDTH_LIMIT

\* scale_factor = min(1, ROW_WIDTH_LIMIT / row_width), as a fraction
\* (row_width > 0).
ScaleFactor(row_width) ==
    IF 2 * ROW_WIDTH_LIMIT < row_width
        THEN [num |-> 2 * ROW_WIDTH_LIMIT, den |-> row_width]
        ELSE [num |-> 1, den |-> 1]

\* for obj in row_objs: lines.append(f"{obj}.scale({scale_factor})")
ScaleRow(row_objs, row_width) ==
    [i \in 1..Len(row_objs) |->
        Line("scale", row_objs[i], <<>>, <<>>, <<>>,
             ScaleFactor(row_width).num, ScaleFactor(row_width).den)]

\* Every object after the first beside the first of the row.
PositionRowBesideFirst(row_objs) ==
    [i \in 1..Len(row_objs) |->
        IF i = 1
          THEN Line("to_edge", row_objs[i], <<>>, <<>>, <<>>, 0, 0)
          ELSE Line("next_to", row_objs[i], <<>>, <<>>, <<row_objs[1]>>, 0, 0)]

\* The first object to the edge, each next one beside its predecessor.
PositionRow(row_objs) ==
    [i \in 1..Len(row_objs) |->
        IF i = 1
          THEN Line("to_edge", row_objs[i], <<>>, <<>>, <<>>, 0, 0)
          ELSE Line("next_to", row_objs[i], <<>>, <<>>, <<row_objs[i - 1]>>, 0, 0)]

\* mobjects_map[mobj_name] = mobj_type: a key already present keeps its
\* place and takes the new value.
MapPut(map, name, cls) ==
    IF \E i \in 1..Len(map) : map[i].name = name
      THEN [i \in 1..Len(map) |->
              IF map[i].name = name THEN [name |-> name, cls |-> cls] ELSE map[i]]
      ELSE Append(map, [name |-> name, cls |-> cls])

\* One pass of the loop over the scene's mobjects.
AddMobject(st, mobj, idx, mobj_idx) ==
    LET mobj_name == MobjName(mobj, idx, mobj_idx)
        kwargs == sanitize_mobject_kwargs(mobj.kwargs)
        created == Append(st.lines, Line("create", mobj_name, mobj.type, kwargs, <<>>, 0, 0))
        row_width == AddWidth(st.row_width, ApproxSize(kwargs))
        row_objs == Append(st.row_objs, mobj_name)
        row_count == st.row_count + 1
        map == MapPut(st.map, mobj_name, mobj.type)
    IN  IF RowCloses(row_count, row_width)
          THEN [lines |-> created \o ScaleRow(row_objs, row_width) \o PositionRow(row_objs),
                row_objs |-> <<>>, row_count |-> 0, row_width |-> 0, map |-> map]
          ELSE [lines |-> created, row_objs |-> row_objs, row_count |-> row_count,
                row_width |-> row_width, map |-> map]

RECURSIVE CreateMobjects(_, _, _, _)
CreateMobjects(mobjects, idx, mobj_idx, st) ==
    IF mobj_idx > Len(mobjects) THEN st
    ELSE CreateMobjects(mobjects, idx, mobj_idx + 1,
                        AddMobject(st, mobjects[mobj_idx], idx, mobj_idx))

\* The names, in the order of mobjects_map, whose class or name is t.
MatchesOf(map, t) ==
    LET hits == SelectSeq(map, LAMBDA e : e.cls = t \/ e.name = t)
    IN  [i \in 1..Len(hits) |-> hits[i].name]

\* A resolution that plays the target as it is written when nothing matches.
PlayStringVerbatim(anim, map) ==
    LET found == MatchesOf(map, anim.target.str)
    IN  <<Line("play", <<>>, anim.type, <<>>,
               <<IF found # <<>> THEN found[1] ELSE anim.target.str>>, 0, 0)>>

\* A target given as one string: the first match, if any.
PlayString(anim, map) ==
    LET found == MatchesOf(map, anim.target.str)
    IN  IF found # <<>> /\ found[1] # <<>>
          THEN <<Line("play", <<>>, anim.type, <<>>, <<found[1]>>, 0, 0)>>
          ELSE <<>>

\* A target given as a list: every match of every element, one play.
PlayList(anim, map) ==
    LET targets == Flatten([i \in 1..Len(anim.target.list) |->
                                MatchesOf(map, anim.target.list[i])])
    IN  IF targets # <<>>
          THEN <<Line("play", <<>>, anim.type, <<>>, targets, 0, 0)>>
          ELSE <<>>

\* One pass of the loop over the scene's animations.
PlayAnimation(anim, map) ==
    CASE anim.target.kind = "str" /\ anim.target.str # <<>> -> PlayString(anim, map)
      [] anim.target.kind = "list" /\ anim.target.list # <<>> -> PlayList(anim, map)
      [] OTHER -> <<>>

CompileScene(scene, idx) ==
    LET start == [lines |-> <<Line("comment", NatStr(idx), <<>>, <<>>,
                                   <<SubSeq(scene.narration, 1,
                                            IF Len(scene.narration) < 50
                                              THEN Len(scene.narration) ELSE 50)>>, 0, 0)>>,
                  row_objs |-> <<>>, row_count |-> 0, row_width |-> 0, map |-> <<>>]
        st == CreateMobjects(scene.mobjects, idx, 1, start)
        remaining == IF st.row_objs # <<>> THEN PositionRow(st.row_objs) ELSE <<>>
        plays == Flatten([i \in 1..Len(scene.animations) |->
                             PlayAnimation(scene.animations[i], st.map)])
    IN  st.lines \o remaining \o plays \o <<Line("wait", <<>>, <<>>, <<>>, <<>>, 0, 0)>>

storyboard_to_manim_code(sb) ==
    << Line("import", <<>>, <<>>, <<>>, <<>>, 0, 0),
       Line("blank", <<>>, <<>>, <<>>, <<>>, 0, 0),
       Line("class", SelectSeq(sb.title, LAMBDA t : t # " "), <<"ThreeDScene">>,
            <<>>, <<>>, 0, 0),
       Line("def", <<"construct">>, <<>>, <<>>, <<>>, 0, 0) >>
      \o Flatten([idx \in 1..Len(sb.scenes) |-> CompileScene(sb.scenes[idx], idx)])

\* ------------------------------------------------------------------------
\* script_with_noobject.py: main, from the parsed storyboard on
\* ------------------------------------------------------------------------
\* Bounds on the storyboards compiled.
MaxMobjects == 2
MaxAnimations == 1
MaxLayoutMobjects == 6

Mobj(type, kwargs) == [type |-> type, kwargs |-> kwargs]
StrTarget(str) == [kind |-> "str", str |-> str, list |-> <<>>]
ListTarget(list) == [kind |-> "list", str |-> <<>>, list |-> list]
NoTarget == [kind |-> "none", str |-> <<>>, list |-> <<>>]
Anim(type, target) == [type |-> type, target |-> target]
SceneOf(mobjects, animations) ==
    [scene_class |-> <<"Scene">>, narration |-> <<"x">>,
     mobjects |-> mobjects, animations |-> animations]

\* Mobjects of the storyboards whose kinds, names and kwargs vary; "Blob" is
\* in no class list, "bogus" is no supported kwarg.
KindMobjects ==
    { Mobj(<<"Circle">>, <<>>),
      Mobj(<<"Circle">>, <<StrItem("name", <<"c">>)>>),
      Mobj(<<"Circle">>, <<StrItem("name", <<"circle", "1", "_", "2">>)>>),
      Mobj(<<"Circle">>, <<NumItem("radius", 4), NumItem("bogus", 1)>>),
      Mobj(<<"Square">>, <<>>),
      Mobj(<<"Square">>, <<StrItem("name", <<"c">>)>>),
      Mobj(<<"Blob">>, <<>>) }

\* Their animations; "Explode" is in no class list.
KindAnimations ==
    { Anim(<<"FadeIn">>, StrTarget(<<"Circle">>)),
      Anim(<<"FadeIn">>, StrTarget(<<"Square">>)),
      Anim(<<"FadeIn">>, StrTarget(<<"c">>)),
      Anim(<<"FadeIn">>, StrTarget(<<"Triangle">>)),
      Anim(<<"FadeIn">>, ListTarget(<<<<"Circle">>, <<"c">>>>)),
      Anim(<<"FadeIn">>, NoTarget),
      Anim(<<"Explode">>, StrTarget(<<"Circle">>)) }

\* A scene of one circle that may precede the scene under study.
FillerScene == SceneOf(<<Mobj(<<"Circle">>, <<>>)>>, <<>>)

KindStoryboards ==
    { [title |-> <<"My", " ", "Demo">>,
       scenes |-> filler \o <<SceneOf(ms, as)>>] :
        ms \in SeqsUpTo(KindMobjects, MaxMobjects),
        as \in SeqsUpTo(KindAnimations, MaxAnimations),
        filler \in {<<>>, <<FillerScene>>} }

\* Mobjects of the storyboards whose sizes vary: radius 3, side length 6,
\* no size, height 3 only.
LayoutMobjects ==
    { Mobj(<<"Circle">>, <<NumItem("radius", 6)>>),
      Mobj(<<"Square">>, <<NumItem("side_length", 12)>>),
      Mobj(<<"Circle">>, <<>>),
      Mobj(<<"Square">>, <<NumItem("height", 6)>>) }

LayoutStoryboards ==
    { [title |-> <<"Demo">>, scenes |-> <<SceneOf(ms, <<>>)>>] :
        ms \in SeqsUpTo(LayoutMobjects, MaxLayoutMobjects) }

\* Bounds on the storyboards whose targets are resolved.
MaxTargetMobjects == 2
MaxTargetAnimations == 2

\* Their mobjects: two of them share the explicit name "c", one is named
\* after the kind of another.
TargetMobjects ==
    { Mobj(<<"Circle">>, <<>>),
      Mobj(<<"Circle">>, <<StrItem("name", <<"c">>)>>),
      Mobj(<<"Square">>, <<StrItem("name", <<"c">>)>>),
      Mobj(<<"Circle">>, <<StrItem("name", <<"Square">>)>>) }

\* Their animations: targets that name a kind, a name, nothing declared
\* ("Triangle"), and lists of them.
TargetAnimations ==
    { Anim(<<"FadeIn">>, StrTarget(<<"Circle">>)),
      Anim(<<"FadeIn">>, StrTarget(<<"Square">>)),
      Anim(<<"FadeIn">>, StrTarget(<<"c">>)),
      Anim(<<"FadeIn">>, StrTarget(<<"Triangle">>)),
      Anim(<<"Create">>, ListTarget(<<<<"Circle">>, <<"c">>>>)),
      Anim(<<"Create">>, ListTarget(<<<<"Triangle">>>>)) }

TargetStoryboards ==
    { [title |-> <<"Demo">>, scenes |-> <<SceneOf(ms, as)>>] :
        ms \in SeqsUpTo(TargetMobjects, MaxTargetMobjects),
        as \in SeqsUpTo(TargetAnimations, MaxTargetAnimations) }

\* Bounds on the storyboards whose objects are placed and then played.
MaxPlacedMobjects == 6
MaxPlacedAnimations == 1

\* Their mobjects: size 3, no size, and an explicit name, which two
\* objects of a scene may share.
PlacedMobjects ==
    { Mobj(<<"Circle">>, <<NumItem("radius", 6)>>),
      Mobj(<<"Circle">>, <<>>),
      Mobj(<<"Square">>, <<StrItem("name", <<"c">>)>>) }

PlacedAnimations == { Anim(<<"FadeIn">>, StrTarget(<<"Circle">>)) }

\* A scene before the one that varies, with an object and an animation.
PlayedScene ==
    SceneOf(<<Mobj(<<"Circle">>, <<>>)>>, <<Anim(<<"FadeIn">>, StrTarget(<<"Circle">>))>>)

PlacedStoryboards ==
    { [title |-> <<"Demo">>, scenes |-> before \o <<SceneOf(ms, as)>>] :
        ms \in SeqsUpTo(PlacedMobjects, MaxPlacedMobjects),
        as \in SeqsUpTo(PlacedAnimations, MaxPlacedAnimations),
        before \in {<<>>, <<PlayedScene>>} }

CompInitOver(storyboards) ==
    /\ cpc = "parsed"
    /\ storyboard \in storyboards
    /\ script_lines = <<>>
    /\ saved = <<>>

CompIdle ==
    /\ cpc = "idle"
    /\ storyboard = [title |-> <<>>, scenes |-> <<>>]
    /\ script_lines = <<>>
    /\ saved = <<>>

\* script_code = storyboard_to_manim_code(storyboard)
Compile ==
    /\ cpc = "parsed"
    /\ script_lines' = storyboard_to_manim_code(storyboard)
    /\ cpc' = "compiled"
    /\ UNCHANGED <<storyboard, saved>>
    /\ UNCHANGED <<appVars, sanVars, pipeVars, audioVars, newVars, frontVars>>

\* with open("generated_script.py", "w") as f: f.write(script_code)
SaveScript ==
    /\ cpc = "compiled"
    /\ saved' = <<script_lines>>
    /\ cpc' = "saved"
    /\ UNCHANGED <<storyboard, script_lines>>
    /\ UNCHANGED <<appVars, sanVars, pipeVars, audioVars, newVars, frontVars>>

\* manim -pql generated_script.py; a CalledProcessError is printed only.
RenderScript ==
    /\ cpc = "saved"
    /\ \E ok \in BOOLEAN : cpc' = IF ok THEN "rendered" ELSE "render_failed"
    /\ UNCHANGED <<storyboard, script_lines, saved>>
    /\ UNCHANGED <<appVars, sanVars, pipeVars, audioVars, newVars, frontVars>>

CompNext == Compile \/ SaveScript \/ RenderScript

\* ------------------------------------------------------------------------
\* pipeline.py: validate_storyboard
\* A JSON value is a record with a tag; a string is the sequence of its
\* characters, a list the sequence of its elements, a dict the sequence of
\* its items (key, value) in insertion order.
\* ------------------------------------------------------------------------
JNull == [tag |-> "null", text |-> <<>>, elems |-> <<>>, fields |-> <<>>]
JNum == [tag |-> "num", text |-> <<>>, elems |-> <<>>, fields |-> <<>>]
JStr(text) == [tag |-> "str", text |-> text, elems |-> <<>>, fields |-> <<>>]
JList(elems) == [tag |-> "list", text |-> <<>>, elems |-> elems, fields |-> <<>>]
JDict(fields) == [tag |-> "dict", text |-> <<>>, elems |-> <<>>, fields |-> fields]
Field(key, val) == [key |-> key, val |-> val]

\* No value yet.
NoValue == [tag |-> "none", text |-> <<>>, elems |-> <<>>, fields |-> <<>>]

\* key in d
DictHas(d, key) == \E i \in 1..Len(d.fields) : d.fields[i].key = key
\* d[key]
DictGet(d, key) == d.fields[CHOOSE i \in 1..Len(d.fields) : d.fields[i].key = key].val
\* d[key] = val: a key already present keeps its place.
DictSet(d, key, val) ==
    IF DictHas(d, key)
      THEN JDict([i \in 1..Len(d.fields) |->
                    IF d.fields[i].key = key THEN Field(key, val) ELSE d.fields[i]])
      ELSE JDict(Append(d.fields, Field(key, val)))

\* A step that fills in a missing field and leaves a present one as it is.
DefaultWhenMissing(scene, key) ==
    IF ~DictHas(scene, key) THEN DictSet(scene, key, JList(<<>>)) ELSE scene

\* A step that leaves the scene as it is.
NoDefault(scene, key) == scene

\* if key not in scene or not isinstance(scene[key], list): scene[key] = []
DefaultToList(scene, key) ==
    IF ~DictHas(scene, key) \/ DictGet(scene, key).tag # "list"
      THEN DictSet(scene, key, JList(<<>>))
      ELSE scene

\* The body of the loop for one scene: `key in scene` and scene[key] = []
\* raise a TypeError for every scene that is not a dict.
ValidateScene(scene) ==
    IF scene.tag = "dict"
      THEN [raised |-> "none",
            value |-> DefaultToList(DefaultToList(scene, "mobjects"), "animations")]
      ELSE [raised |-> "TypeError", value |-> scene]

\* What `for scene in x` runs over: the elements of a list, the characters
\* of a string, the keys of a dict; a TypeError for any other value.
Iterate(x) ==
    CASE x.tag = "list" -> [raised |-> "none", items |-> x.elems]
      [] x.tag = "str" ->
            [raised |-> "none", items |-> [i \in 1..Len(x.text) |-> JStr(<<x.text[i]>>)]]
      [] x.tag = "dict" ->
            [raised |-> "none",
             items |-> [i \in 1..Len(x.fields) |-> JStr(<<x.fields[i].key>>)]]
      [] OTHER -> [raised |-> "TypeError", items |-> <<>>]

\* validate_storyboard(storyboard): the exception it raises, if any, and
\* the value it returns.  The scenes are changed in place, so a scenes list
\* holds the validated scenes; the items of a string or of a dict are
\* strings, which raise.
validate_storyboard(sb) ==
    IF sb.tag # "dict" THEN [raised |-> "AttributeError", value |-> NoValue]
    ELSE LET scenes == IF DictHas(sb, "scenes") THEN DictGet(sb, "scenes") ELSE JList(<<>>)
             iter == Iterate(scenes)
             done == [i \in 1..Len(iter.items) |-> ValidateScene(iter.items[i])]
         IN  IF iter.raised # "none" \/ \E i \in 1..Len(done) : done[i].raised # "none"
               THEN [raised |-> "TypeError", value |-> NoValue]
             ELSE IF scenes.tag = "list" /\ DictHas(sb, "scenes")
               THEN [raised |-> "none",
                     value |-> DictSet(sb, "scenes",
                                       JList([i \in 1..Len(done) |-> done[i].value]))]
             ELSE [raised |-> "none", value |-> sb]

\* ------------------------------------------------------------------------
\* pipeline.py: main
\* ------------------------------------------------------------------------
\* MAX_RETRIES of pipeline.py.
MAX_RETRIES == 3

\* Bound on the number of scenes of a parsed storyboard.
MaxScenes == 2

\* Values of a scene's "mobjects" and "animations" items.
SomeMobjects == JList(<<JDict(<<Field("type", JStr(<<"Circle">>))>>)>>)
SomeAnimations ==
    JList(<<JDict(<<Field("type", JStr(<<"FadeIn">>)),
                    Field("target", JStr(<<"Circle">>))>>)>>)

\* The scenes of the parsed values: dicts with the two items present as a
\* list, present as something else, or missing, and values that are no dict.
ParsedScenes ==
    { JDict(<<Field("narration", JStr(<<"x">>))>> \o ms \o as) :
        ms \in { <<>>, <<Field("mobjects", SomeMobjects)>>,
                 <<Field("mobjects", JStr(<<"Circle">>))>> },
        as \in { <<>>, <<Field("animations", SomeAnimations)>>,
                 <<Field("animations", JNull)>> } }
      \cup {JStr(<<"x">>), JNum}

\* What json.loads(cleaned) may return: values that are no dict, dicts with
\* no "scenes", with a "scenes" that is no list, and with a list of scenes.
ParsedValues ==
    {JNull, JNum, JStr(<<"x">>), JList(<<>>), JList(<<JNum>>)}
      \cup {JDict(<<Field("title", JStr(<<"t">>))>>)}
      \cup {JDict(<<Field("title", JStr(<<"t">>)), Field("scenes", v)>>) :
              v \in {JNull, JNum, JStr(<<>>), JStr(<<"a", "b">>), JDict(<<>>),
                     JDict(<<Field("narration", JStr(<<"x">>))>>)}}
      \cup {JDict(<<Field("scenes", JList(ss)), Field("title", JStr(<<"t">>))>>) :
              ss \in SeqsUpTo(ParsedScenes, MaxScenes)}

\* Scripts the text model may return for the storyboard.
PipeScripts == {"codeA", "NoScene"}

\* A loop that runs one time more than range(1, budget + 1).
RangeEndsLate(att, budget) == att = budget + 1

\* for attempt in range(1, budget + 1): attempt is the last value.
RangeEnds(att, budget) == att = budget

PipeInit ==
    /\ ppc = "generate"
    /\ p_attempt = 1
    /\ p_calls = 0
    /\ parsed = NoValue
    /\ p_storyboard = NoValue
    /\ p_raised = "none"
    /\ p_saved = <<>>
    /\ p_rendered = <<>>

PipeIdle ==
    /\ ppc = "idle"
    /\ p_attempt = 0
    /\ p_calls = 0
    /\ parsed = NoValue
    /\ p_storyboard = NoValue
    /\ p_raised = "none"
    /\ p_saved = <<>>
    /\ p_rendered = <<>>

\* main, one pass of the loop up to json.loads: the storyboard request,
\* fix_gemini_json and json.loads, which returns a value or raises the
\* JSONDecodeError main catches: on the last attempt main returns, else
\* the loop goes on.
PipeGenerate ==
    /\ ppc = "generate"
    /\ p_calls' = p_calls + 1
    /\ \/ /\ \E v \in ParsedValues : parsed' = v
          /\ ppc' = "validate"
          /\ UNCHANGED p_attempt
       \/ /\ IF RangeEnds(p_attempt, MAX_RETRIES)
               THEN ppc' = "exit" /\ UNCHANGED p_attempt
               ELSE ppc' = "generate" /\ p_attempt' = p_attempt + 1
          /\ UNCHANGED parsed
    /\ UNCHANGED <<p_storyboard, p_raised, p_saved, p_rendered>>
    /\ UNCHANGED <<appVars, sanVars, compVars, audioVars, newVars, frontVars>>

\* main: storyboard = validate_storyboard(storyboard); break.  An exception
\* of validate_storyboard is no JSONDecodeError and ends the run.
PipeValidate ==
    /\ ppc = "validate"
    /\ LET r == validate_storyboard(parsed)
       IN  IF r.raised = "none"
             THEN /\ p_storyboard' = r.value
                  /\ ppc' = "script"
                  /\ UNCHANGED p_raised
             ELSE /\ p_raised' = r.raised
                  /\ ppc' = "raised"
                  /\ UNCHANGED p_storyboard
    /\ UNCHANGED <<p_attempt, p_calls, parsed, p_saved, p_rendered>>
    /\ UNCHANGED <<appVars, sanVars, compVars, audioVars, newVars, frontVars>>

\* main: manim_script = call_gemini(script_prompt), written to
\* generated_script.py as it is.
PipeScript ==
    /\ ppc = "script"
    /\ \E code \in PipeScripts : p_saved' = <<code>>
    /\ ppc' = "render"
    /\ UNCHANGED <<p_attempt, p_calls, parsed, p_storyboard, p_raised, p_rendered>>
    /\ UNCHANGED <<appVars, sanVars, compVars, audioVars, newVars, frontVars>>

\* render_manim(script_path); a CalledProcessError is printed only.
PipeRender ==
    /\ ppc = "render"
    /\ \E ok \in BOOLEAN : p_rendered' = <<[script |-> p_saved[1], ok |-> ok]>>
    /\ ppc' = "exit"
    /\ UNCHANGED <<p_attempt, p_calls, parsed, p_storyboard, p_raised, p_saved>>
    /\ UNCHANGED <<appVars, sanVars, compVars, audioVars, newVars, frontVars>>

PipeNext == PipeGenerate \/ PipeValidate \/ PipeScript \/ PipeRender

\* ------------------------------------------------------------------------
\* pipeline_with_audio.py: request_storyboard_from_gemini
\* ------------------------------------------------------------------------
\* MAX_RETRIES of pipeline_with_audio.py.
AUDIO_MAX_RETRIES == 3

\* resp.text: without "[" or "]", with a bracketed part json.loads rejects,
\* or with a bracketed part that parses (to a list, as it starts with "[").
AudioResponses == {"no_brackets", "parse_error", "list"}

AudioInit ==
    /\ apc = "request"
    /\ a_attempt = 1
    /\ a_calls = 0
    /\ a_raised = "none"

AudioIdle ==
    /\ apc = "idle"
    /\ a_attempt = 0
    /\ a_calls = 0
    /\ a_raised = "none"

\* One pass of the loop: the request, then return storyboard, or the next
\* pass, or after the last pass raise RuntimeError("Failed to obtain ...").
AudioRequest ==
    /\ apc = "request"
    /\ a_calls' = a_calls + 1
    /\ \E resp \in AudioResponses :
         IF resp = "list"
           THEN apc' = "returned" /\ UNCHANGED <<a_attempt, a_raised>>
         ELSE IF RangeEnds(a_attempt, AUDIO_MAX_RETRIES)
           THEN apc' = "raised" /\ a_raised' = "RuntimeError" /\ UNCHANGED a_attempt
         ELSE apc' = "request" /\ a_attempt' = a_attempt + 1 /\ UNCHANGED a_raised
    /\ UNCHANGED <<appVars, sanVars, compVars, pipeVars, newVars, frontVars>>

AudioNext == AudioRequest

\* ------------------------------------------------------------------------
\* pipeline_new.py: main
\* A script is the sequence of its words; "BQ3" stands for a run of three
\* backquotes.
\* ------------------------------------------------------------------------
\* MAX_RETRIES of pipeline_new.py.
NEW_MAX_RETRIES == 3

\* Bound on the number of words of a script the text model returns.
MaxWords == 3

ScriptWords == {"BQ3", "python", "class", "Scene"}
ScriptTexts == SeqsUpTo(ScriptWords, MaxWords)

\* s.strip("`")
RECURSIVE StripBackquotes(_)
StripBackquotes(s) ==
    IF s # <<>> /\ Head(s) = "BQ3" THEN StripBackquotes(Tail(s))
    ELSE IF s # <<>> /\ s[Len(s)] = "BQ3" THEN StripBackquotes(SubSeq(s, 1, Len(s) - 1))
    ELSE s

\* if manim_script.startswith(3 backquotes):
\*     manim_script = manim_script.strip("`").replace("python", "").strip()
CleanFences(s) ==
    IF s # <<>> /\ Head(s) = "BQ3"
      THEN SelectSeq(StripBackquotes(s), LAMBDA w : w # "python")
      ELSE s

\* "class" in manim_script and "Scene" in manim_script
LooksLikeManim(s) == "class" \in Range(s) /\ "Scene" \in Range(s)

NewInit ==
    /\ npc = "generate"
    /\ n_attempt = 1
    /\ n_calls = 0
    /\ manim_script = <<>>
    /\ n_saved = <<>>
    /\ n_rendered = <<>>

NewIdle ==
    /\ npc = "idle"
    /\ n_attempt = 0
    /\ n_calls = 0
    /\ manim_script = <<>>
    /\ n_saved = <<>>
    /\ n_rendered = <<>>

\* main, one pass of the loop: the script request and the fence clean-up;
\* a script that looks like Manim, or the end of the range, leaves the loop.
NewGenerate ==
    /\ npc = "generate"
    /\ n_calls' = n_calls + 1
    /\ \E text \in ScriptTexts :
         /\ manim_script' = CleanFences(text)
         /\ IF LooksLikeManim(CleanFences(text)) \/ RangeEnds(n_attempt, NEW_MAX_RETRIES)
              THEN npc' = "save" /\ UNCHANGED n_attempt
              ELSE npc' = "generate" /\ n_attempt' = n_attempt + 1
    /\ UNCHANGED <<n_saved, n_rendered>>
    /\ UNCHANGED <<appVars, sanVars, compVars, pipeVars, audioVars, frontVars>>

\* with open(script_path, "w") as f: f.write(manim_script)
NewSave ==
    /\ npc = "save"
    /\ n_saved' = <<manim_script>>
    /\ npc' = "render"
    /\ UNCHANGED <<n_attempt, n_calls, manim_script, n_rendered>>
    /\ UNCHANGED <<appVars, sanVars, compVars, pipeVars, audioVars, frontVars>>

\* render_manim(script_path); a CalledProcessError is printed only.
NewRender ==
    /\ npc = "render"
    /\ \E ok \in BOOLEAN : n_rendered' = <<[script |-> n_saved[1], ok |-> ok]>>
    /\ npc' = "exit"
    /\ UNCHANGED <<n_attempt, n_calls, manim_script, n_saved>>
    /\ UNCHANGED <<appVars, sanVars, compVars, pipeVars, audioVars, frontVars>>

NewNext == NewGenerate \/ NewSave \/ NewRender

\* ------------------------------------------------------------------------
\* script_with_noobject.py: load_allowed_classes, extract_json and the
\* steps of main that call them (load_allowed_classes is the same function
\* in pipeline.py)
\* ------------------------------------------------------------------------
UpperLetters ==
    <<"A", "B", "C", "D", "E", "F", "G", "H", "I", "J", "K", "L", "M">>
      \o <<"N", "O", "P", "Q", "R", "S", "T", "U", "V", "W", "X", "Y", "Z">>
LowerLetters ==
    <<"a", "b", "c", "d", "e", "f", "g", "h", "i", "j", "k", "l", "m">>
      \o <<"n", "o", "p", "q", "r", "s", "t", "u", "v", "w", "x", "y", "z">>

\* str.lower(), character by character.
LowerChar(c) ==
    IF \E i \in DOMAIN UpperLetters : UpperLetters[i] = c
      THEN LowerLetters[CHOOSE i \in DOMAIN UpperLetters : UpperLetters[i] = c]
      ELSE c
LowerText(text) == [i \in 1..Len(text) |-> LowerChar(text[i])]

\* The texts the loader compares the first column with.
MobjectsHeader == <<"m", "o", "b", "j", "e", "c", "t", "s">>
AnimationsHeader == <<"a", "n", "i", "m", "a", "t", "i", "o", "n", "s">>
ScenesHeader == <<"s", "c", "e", "n", "e", "s">>
ClassNameHeader == <<"c", "l", "a", "s", "s", " ", "n", "a", "m", "e">>

\* First columns of the rows of a class file: section headers in several
\* spellings, the column header, class names, an empty and a blank cell.
Cells ==
    { <<"M", "o", "b", "j", "e", "c", "t", "s">>,
      <<"A", "N", "I", "M", "A", "T", "I", "O", "N", "S">>,
      <<" ", "s", "c", "e", "n", "e", "s", " ">>,
      <<"C", "l", "a", "s", "s", " ", "N", "a", "m", "e">>,
      <<"C", "i", "r", "c", "l", "e">>,
      <<" ", "S", "q", "u", "a", "r", "e">>,
      <<"F", "a", "d", "e", "I", "n">>,
      <<"S", "c", "e", "n", "e">>,
      <<" ", " ">>,
      <<>> }

\* Bound on the rows of the class file.
MaxRows == 3

\* A row is empty (a blank line of the file) or starts with a cell.
CsvRows == {<<>>} \cup {<<c>> : c \in Cells}
CsvFiles == SeqsUpTo(CsvRows, MaxRows)

\* The head of the file manim_classes.py writes.
GeneratedCsv ==
    << <<<<"M", "o", "b", "j", "e", "c", "t", "s">>>>,
       <<<<"C", "l", "a", "s", "s", " ", "N", "a", "m", "e">>>>,
       <<<<"C", "i", "r", "c", "l", "e">>>>,
       <<>> >>

\* allowed = {"Scene": set(), "Mobject": set(), "Animation": set()}
NoClasses == [Scene |-> {}, Mobject |-> {}, Animation |-> {}]

\* A step that adds the name to every set.
AddClassEverywhere(allowed, current_type, name) ==
    [t \in DOMAIN allowed |-> allowed[t] \cup {name}]

\* allowed[current_type].add(row[0].strip())
AddClass(allowed, current_type, name) ==
    [allowed EXCEPT ![current_type] = @ \cup {name}]

\* One pass of the loop over the rows; current_type is "None" before the
\* first section header.
LoadRow(st, row) ==
    IF row = <<>> \/ Strip(row[1]) = <<>> THEN st
    ELSE LET first == LowerText(Strip(row[1]))
         IN  IF first = MobjectsHeader THEN [st EXCEPT !.current_type = "Mobject"]
             ELSE IF first = AnimationsHeader THEN [st EXCEPT !.current_type = "Animation"]
             ELSE IF first = ScenesHeader THEN [st EXCEPT !.current_type = "Scene"]
             ELSE IF FindFrom(first, ClassNameHeader, 1) # 0 THEN st
             ELSE IF st.current_type # "None"
               THEN [st EXCEPT !.allowed = AddClass(st.allowed, st.current_type, Strip(row[1]))]
             ELSE st

RECURSIVE LoadRows(_, _, _)
LoadRows(rows, i, st) ==
    IF i > Len(rows) THEN st ELSE LoadRows(rows, i + 1, LoadRow(st, rows[i]))

load_allowed_classes(rows) ==
    LoadRows(rows, 1, [current_type |-> "None", allowed |-> NoClasses]).allowed

\* The index of the last "}" of the text, 0 if it has none.
LastBrace(text) ==
    IF \E i \in 1..Len(text) : text[i] = "}"
      THEN CHOOSE i \in 1..Len(text) :
              text[i] = "}" /\ \A k \in (i + 1)..Len(text) : text[k] # "}"
      ELSE 0

\* The inside of the first json fence, stripped; else the text from the
\* first "{" to the last "}", stripped; else the text, stripped.
extract_json(text) ==
    LET open == FindFrom(text, OpenFence, 1)
        close == IF open = 0 THEN 0
                 ELSE FindFrom(text, CloseFence, open + Len(OpenFence))
        brace == FindFrom(text, <<"{">>, 1)
    IN  IF close # 0 THEN Strip(SubSeq(text, open + Len(OpenFence), close - 1))
        ELSE IF brace # 0 /\ LastBrace(text) > brace
          THEN Strip(SubSeq(text, brace, LastBrace(text)))
        ELSE Strip(text)

FrontInitOver(files) ==
    /\ fpc = "load"
    /\ csv_rows \in files
    /\ allowed_classes = NoClasses
    /\ storyboard_text = <<>>
    /\ extracted = <<>>

FrontIdle ==
    /\ fpc = "idle"
    /\ csv_rows = <<>>
    /\ allowed_classes = NoClasses
    /\ storyboard_text = <<>>
    /\ extracted = <<>>

\* allowed_classes = load_allowed_classes(CSV_FILE)
LoadAllowedClasses ==
    /\ fpc = "load"
    /\ allowed_classes' = load_allowed_classes(csv_rows)
    /\ fpc' = "call"
    /\ UNCHANGED <<csv_rows, storyboard_text, extracted>>
    /\ UNCHANGED <<appVars, sanVars, compVars, pipeVars, audioVars, newVars>>

\* storyboard_text = call_gemini(storyboard_prompt)
CallGemini ==
    /\ fpc = "call"
    /\ storyboard_text' \in RawTexts
    /\ fpc' = "extract"
    /\ UNCHANGED <<csv_rows, allowed_classes, extracted>>
    /\ UNCHANGED <<appVars, sanVars, compVars, pipeVars, audioVars, newVars>>

\* cleaned = extract_json(storyboard_text)
ExtractJson ==
    /\ fpc = "extract"
    /\ extracted' = extract_json(storyboard_text)
    /\ fpc' = "extracted"
    /\ UNCHANGED <<csv_rows, allowed_classes, storyboard_text>>
    /\ UNCHANGED <<appVars, sanVars, compVars, pipeVars, audioVars, newVars>>

FrontNext == LoadAllowedClasses \/ CallGemini \/ ExtractJson

\* ------------------------------------------------------------------------
\* Specifications
\* ------------------------------------------------------------------------
\* One run of app.py.
Init ==
    AppInit /\ SanIdle /\ CompIdle
        /\ PipeIdle /\ AudioIdle /\ NewIdle /\ FrontIdle
Next == AppNext
Spec == Init /\ [][Next]_vars

\* The same run, every enabled step of the sequential program being taken
\* (exec() and the calls of the text model are taken to return).
FairSpec == Spec /\ WF_vars(Next)

\* fix_gemini_json on every raw text, and on its own output.
InitSanitize ==
    AppIdle /\ SanInit /\ CompIdle
        /\ PipeIdle /\ AudioIdle /\ NewIdle /\ FrontIdle
SpecSanitize == InitSanitize /\ [][SanNext]_vars

\* The compiler on the storyboards of varying kinds and names.
InitCompile ==
    AppIdle /\ SanIdle /\ CompInitOver(KindStoryboards)
        /\ PipeIdle /\ AudioIdle /\ NewIdle /\ FrontIdle
SpecCompile == InitCompile /\ [][CompNext]_vars

\* The compiler on the storyboards of varying sizes.
InitLayout ==
    AppIdle /\ SanIdle /\ CompInitOver(LayoutStoryboards)
        /\ PipeIdle /\ AudioIdle /\ NewIdle /\ FrontIdle
SpecLayout == InitLayout /\ [][CompNext]_vars

\* The compiler on the storyboards whose objects are placed and played.
InitPlaced ==
    AppIdle /\ SanIdle /\ CompInitOver(PlacedStoryboards)
        /\ PipeIdle /\ AudioIdle /\ NewIdle /\ FrontIdle
SpecPlaced == InitPlaced /\ [][CompNext]_vars

\* The compiler on the storyboards whose targets are resolved.
InitTargets ==
    AppIdle /\ SanIdle /\ CompInitOver(TargetStoryboards)
        /\ PipeIdle /\ AudioIdle /\ NewIdle /\ FrontIdle
SpecTargets == InitTargets /\ [][CompNext]_vars

\* One run of pipeline.py.
InitPipeline ==
    AppIdle /\ SanIdle /\ CompIdle
        /\ PipeInit /\ AudioIdle /\ NewIdle /\ FrontIdle
SpecPipeline == InitPipeline /\ [][PipeNext]_vars

\* The loader on the class files.
InitLoad ==
    AppIdle /\ SanIdle /\ CompIdle
        /\ PipeIdle /\ AudioIdle /\ NewIdle /\ FrontInitOver(CsvFiles)
SpecLoad == InitLoad /\ [][LoadAllowedClasses]_vars

\* The first step on the model's text, in pipeline.py and in
\* script_with_noobject.py.
InitFences ==
    /\ AppIdle /\ CompIdle /\ PipeIdle /\ AudioIdle /\ NewIdle
    /\ \/ SanInit /\ FrontIdle
       \/ SanIdle /\ FrontInitOver({GeneratedCsv})
FenceNext == SanNext \/ FrontNext
SpecFences == InitFences /\ [][FenceNext]_vars

\* One run of any of the programs that ask the text model again: app.py,
\* pipeline.py, pipeline_with_audio.py's storyboard request, pipeline_new.py;
\* every enabled step of the sequential program is taken (the calls of the
\* text model and exec() are taken to return).
InitRetry ==
    /\ SanIdle /\ CompIdle
    /\ \/ AppInit /\ PipeIdle /\ AudioIdle /\ NewIdle /\ FrontIdle
       \/ AppIdle /\ PipeInit /\ AudioIdle /\ NewIdle /\ FrontIdle
       \/ AppIdle /\ PipeIdle /\ AudioInit /\ NewIdle /\ FrontIdle
       \/ AppIdle /\ PipeIdle /\ AudioIdle /\ NewInit /\ FrontIdle
RetryNext == AppNext \/ PipeNext \/ AudioNext \/ NewNext
SpecRetry == InitRetry /\ [][RetryNext]_vars /\ WF_vars(RetryNext)

\* ------------------------------------------------------------------------
\* The repair loop (app.py)
\* ------------------------------------------------------------------------
Exhausted == pc = "raised" /\ raised.type = "RuntimeError"
Terminated == pc \in {"exit", "raised"}

\* exec() calls that raised an Exception, the failures the loop catches.
FailedExecs ==
    IF last_exec.result = "Exception" THEN execs
    ELSE IF execs = 0 THEN 0 ELSE execs - 1

\* C1 as stated: with max_attempts = 3 and every execution failing, the
\* session ends exhausted after exactly 3 executions and 3 diagnostics.
C1_ExhaustedAfterThree ==
    (Exhausted /\ max_retries = 3) => (execs = 3 /\ Len(error_history) = 3)

\* C1 amended: every run ends, after at most 1 + max_retries executions
\* (one in main, one per correction); a run that ends exhausted made
\* exactly 1 + max_retries executions and recorded as many diagnostics (4
\* and 4 for max_retries = 3), the loop ending as soon as attempt reaches
\* max_retries.
C1_BoundedRepair ==
    /\ [](/\ execs <= 1 + max_retries
          /\ attempt <= max_retries
          /\ Exhausted => /\ execs = 1 + max_retries
                          /\ Len(error_history) = 1 + max_retries
                          /\ attempt = max_retries)
    /\ <>Terminated

C1_Witness ==
    Exhausted /\ max_retries = 3 /\ execs = 4 /\ Len(error_history) = 4

\* C2: after n failed executions the history holds exactly n diagnostics,
\* and the correction request that precedes execution n + 1 holds all of
\* them, in order.
C2_RequestHoldsHistory ==
    /\ Len(error_history) = FailedExecs
    /\ pc \in {"debug_parse", "debug_exec"} =>
          /\ prompt.error_history = error_history
          /\ Len(prompt.error_history) = attempt
          /\ execs = attempt
    /\ IsPrefix(prompt.error_history, error_history)

C2_Witness ==
    /\ pc = "debug_exec"
    /\ attempt = 3
    /\ prompt.error_history = <<"err1", "err2", "err1">>

\* C3: the history only grows at its end, and each request sent holds the
\* whole of it.
C3_AppendOnly ==
    [][/\ IsPrefix(error_history, error_history')
       /\ prompt' # prompt => prompt'.error_history = error_history]_vars

C3_Witness ==
    /\ Len(error_history) >= 3
    /\ error_history[1] # error_history[2]
    /\ pc = "debug_parse"

\* C4 as stated: a correction response that cannot be parsed is appended
\* to the history as a diagnostic and the loop goes on.
C4_ParseFailureRecorded ==
    [][(pc = "debug_parse" /\ pc' # "debug_exec") =>
          /\ pc' = "debug_while"
          /\ Len(error_history') = Len(error_history) + 1]_vars

\* C4 amended: a correction response that is not JSON, or has no "code"
\* key, ends the session at once with the JSONDecodeError or KeyError; the
\* history, the attempt count and the number of executions stay as they
\* were, and nothing runs after the error.
C4_ParseFailureAborts ==
    [][/\ pc # "raised"
       /\ (pc = "debug_parse" /\ pc' # "debug_exec") =>
             /\ pc' = "raised"
             /\ raised'.type \in {"JSONDecodeError", "KeyError"}
             /\ error_history' = error_history
             /\ attempt' = attempt
             /\ execs' = execs]_vars

C4_Witness ==
    /\ pc = "raised"
    /\ raised.type = "JSONDecodeError"
    /\ attempt = 2
    /\ Len(error_history) = 2
    /\ max_retries = 3

\* The diagnostics an exception value carries in its args.
CarriesHistory(exc, history) ==
    \E i \in 1..Len(exc.args) : exc.args[i].tag = "list" /\ exc.args[i].list = history

\* C5 as stated: the error of an exhausted budget carries the full history.
C5_ErrorCarriesHistory == Exhausted => CarriesHistory(raised, error_history)

\* C5 amended: the error of an exhausted budget is a RuntimeError whose only
\* argument is the fixed message; the 1 + max_retries diagnostics recorded
\* are not attached to it.
C5_ErrorIsMessageOnly ==
    Exhausted =>
        /\ raised.args = <<StrArg(MaxRetriesMessage)>>
        /\ Len(error_history) = 1 + max_retries
        /\ ~CarriesHistory(raised, error_history)

C5_Witness == Exhausted /\ Len(error_history) = 3 /\ error_history[3] = "err2"

\* C6: the source main writes and renders is the source of the latest
\* exec(), and that exec() succeeded.
C6_DoneSourceRan ==
    /\ pc \in {"main_write", "main_find_class", "main_render"} =>
          last_exec = [code |-> script_code, result |-> "ok"]
    /\ written # <<>> =>
          /\ written = <<script_code>>
          /\ last_exec = [code |-> written[1], result |-> "ok"]
    /\ rendered # <<>> =>
          /\ rendered[1].script = written[1]
          /\ last_exec = [code |-> rendered[1].script, result |-> "ok"]

C6_Witness ==
    /\ written = <<"codeB">>
    /\ Len(error_history) = 2
    /\ prompt.current_code = "codeA"
    /\ rendered # <<>>

\* ------------------------------------------------------------------------
\* The sanitizer (pipeline.py)
\* ------------------------------------------------------------------------
\* C7: fix_gemini_json applied to its own output returns it unchanged.
C7_Idempotent == spc = "recleaned" => recleaned = cleaned

\* C8 as stated: the output has as many "{" as "}" and as many "[" as "]".
C8_Balanced ==
    spc # "raw" =>
        /\ Count(cleaned, "{") = Count(cleaned, "}")
        /\ Count(cleaned, "[") = Count(cleaned, "]")

\* C8 amended: the output is the text of steps 1-4 with closers appended; it
\* has at least as many "}" as "{" and "]" as "[", and as many of a kind
\* whenever the text of steps 1-4 has no more closers than openers of that
\* kind.
C8_ClosersCoverOpeners ==
    spc # "raw" =>
        LET pre == PreBalance(raw)
        IN  /\ IsPrefix(pre, cleaned)
            /\ Count(cleaned, "{") <= Count(cleaned, "}")
            /\ Count(cleaned, "[") <= Count(cleaned, "]")
            /\ Count(pre, "}") <= Count(pre, "{") =>
                  Count(cleaned, "{") = Count(cleaned, "}")
            /\ Count(pre, "]") <= Count(pre, "[") =>
                  Count(cleaned, "[") = Count(cleaned, "]")
            /\ Count(cleaned, "{") = Count(pre, "{")
            /\ Count(cleaned, "[") = Count(pre, "[")

C8_Witness ==
    /\ spc = "cleaned"
    /\ raw = <<"{", "[", "{">>
    /\ cleaned = <<"{", "[", "{", "}", "}", "]">>

\* ------------------------------------------------------------------------
\* The compiler (script_with_noobject.py)
\* ------------------------------------------------------------------------
\* C9: every class the compiled script names is in the class lists: the
\* scene class among the scenes, each object's class among the mobjects,
\* each animation among the animations.
C9_AllowListSound ==
    cpc # "parsed" =>
        \A i \in 1..Len(script_lines) :
            /\ script_lines[i].stmt = "class" => script_lines[i].callee \in Allowed.Scene
            /\ script_lines[i].stmt = "create" => script_lines[i].callee \in Allowed.Mobject
            /\ script_lines[i].stmt = "play" => script_lines[i].callee \in Allowed.Animation

\* The rows of a script: a to_edge statement opens a row, a next_to
\* statement adds to the current row.
RECURSIVE RowsFrom(_, _, _)
RowsFrom(lines, i, rows) ==
    IF i > Len(lines) THEN rows
    ELSE IF lines[i].stmt = "to_edge"
      THEN RowsFrom(lines, i + 1, Append(rows, <<lines[i].name>>))
    ELSE IF lines[i].stmt = "next_to" /\ rows # <<>>
      THEN RowsFrom(lines, i + 1,
                    [rows EXCEPT ![Len(rows)] = Append(rows[Len(rows)], lines[i].name)])
    ELSE RowsFrom(lines, i + 1, rows)

RowsOf(lines) == RowsFrom(lines, 1, <<>>)

\* The size (in halves) the script constructs the object with.
SizeOf(lines, name) ==
    LET made == SelectSeq(lines, LAMBDA l : l.stmt = "create" /\ l.name = name)
    IN  ApproxSize(made[1].kwargs)

\* The factor of the object's scale statement, 1 when it has none.
ScaleOf(lines, name) ==
    LET scaled == SelectSeq(lines, LAMBDA l : l.stmt = "scale" /\ l.name = name)
    IN  IF scaled = <<>> THEN [num |-> 1, den |-> 1]
        ELSE [num |-> scaled[1].num, den |-> scaled[1].den]

RECURSIVE SumSizes(_, _)
SumSizes(lines, row) ==
    IF row = <<>> THEN 0 ELSE SizeOf(lines, Head(row)) + SumSizes(lines, Tail(row))

\* factor * (sum of sizes) + 0.5 * (objects - 1) <= ROW_WIDTH_LIMIT, every
\* object of the row having the factor of the first.
RowWithinBudget(lines, row) ==
    LET f == ScaleOf(lines, row[1])
    IN  /\ \A i \in 1..Len(row) : ScaleOf(lines, row[i]) = f
        /\ f.num * SumSizes(lines, row) + f.den * (Len(row) - 1)
              <= f.den * 2 * ROW_WIDTH_LIMIT

\* C10: in every row of the script, the scaled sizes plus the buffers
\* between the objects are within the row-width budget.
C10_RowsWithinBudget ==
    cpc # "parsed" =>
        \A r \in 1..Len(RowsOf(script_lines)) :
            RowWithinBudget(script_lines, RowsOf(script_lines)[r])

\* The indexes of the "# Scene n" comments, which open the scenes.
CommentIndexes(lines) ==
    SelectSeq([i \in 1..Len(lines) |-> i], LAMBDA i : lines[i].stmt = "comment")

\* The statements the script holds for scene number idx.
SceneLines(lines, idx) ==
    LET cs == CommentIndexes(lines)
    IN  SubSeq(lines, cs[idx], IF idx < Len(cs) THEN cs[idx + 1] - 1 ELSE Len(lines))

\* The statements of a kind among them.
StmtsOf(lines, idx, stmt) == SelectSeq(SceneLines(lines, idx), LAMBDA l : l.stmt = stmt)

\* The object has no explicit name: its name is synthesized.
Unnamed(mobj) == ~HasKey(mobj.kwargs, "name")

\* C11: in every scene, an object whose name is synthesized is bound to a
\* name no other object of the scene is bound to, be that other name
\* synthesized or explicit.
C11_SynthesizedNamesUnique ==
    cpc # "parsed" =>
        \A s \in 1..Len(storyboard.scenes) :
            LET made == StmtsOf(script_lines, s, "create")
                mobjects == storyboard.scenes[s].mobjects
            IN  /\ Len(made) = Len(mobjects)
                /\ \A i, j \in 1..Len(made) :
                      (i # j /\ Unnamed(mobjects[i])) => made[i].name # made[j].name

\* The scenes of the end-to-end scenario: one unnamed Circle, one FadeIn
\* with target "Circle".
DemoScenes ==
    <<SceneOf(<<Mobj(<<"Circle">>, <<>>)>>,
              <<Anim(<<"FadeIn">>, StrTarget(<<"Circle">>))>>)>>

\* The script constructs exactly one object, a Circle bound to name, and
\* plays exactly one animation, a FadeIn of name.
OneCircleFadedIn(lines, name) ==
    /\ StmtsOf(lines, 1, "create") = <<Line("create", name, <<"Circle">>, <<>>, <<>>, 0, 0)>>
    /\ StmtsOf(lines, 1, "play") = <<Line("play", <<>>, <<"FadeIn">>, <<>>, <<name>>, 0, 0)>>
    /\ Len(CommentIndexes(lines)) = 1

\* C12 as stated: the scenario's script binds the circle to circle_0_0 and
\* fades that name in.
C12_DemoNamedCircle_0_0 ==
    (cpc # "parsed" /\ storyboard.scenes = DemoScenes) =>
        OneCircleFadedIn(script_lines, <<"circle", "_", "0", "_", "0">>)

\* C12 amended: the scenario's script constructs exactly one Circle, bound
\* to circle1_1 (the kind in lower case, the scene number and the object
\* number, both counted from 1), and plays exactly one FadeIn, of that name.
C12_DemoNamedCircle1_1 ==
    (cpc # "parsed" /\ storyboard.scenes = DemoScenes) =>
        OneCircleFadedIn(script_lines, <<"circle", "1", "_", "1">>)

C12_Witness ==
    /\ cpc = "saved"
    /\ storyboard.scenes = DemoScenes
    /\ \E i \in 1..Len(saved[1]) :
           saved[1][i].stmt = "play" /\ saved[1][i].args = <<<<"circle", "1", "_", "1">>>>

\* The numbers of the scene's objects, as the script declares them, whose
\* name or kind is t.
DeclaredMatches(made, t) ==
    {i \in 1..Len(made) : made[i].name = t \/ made[i].callee = t}

\* The name of the first declared object whose name or kind is t, as a
\* sequence of at most one name.
FirstDeclared(made, t) ==
    LET hits == DeclaredMatches(made, t)
    IN  IF hits = {} THEN <<>>
        ELSE <<made[CHOOSE i \in hits : \A j \in hits : i <= j].name>>

\* One play statement over the names, none when there is no name.
PlayOver(anim_type, names) ==
    IF names = <<>> THEN <<>>
    ELSE <<Line("play", <<>>, anim_type, <<>>, names, 0, 0)>>

\* C13: in a scene whose operations have string targets, each operation
\* plays the first declared object whose name or kind is its target.
C13_FirstDeclaredMatch ==
    cpc # "parsed" =>
        \A s \in 1..Len(storyboard.scenes) :
            LET anims == storyboard.scenes[s].animations
                made == StmtsOf(script_lines, s, "create")
            IN  (\A a \in 1..Len(anims) : anims[a].target.kind = "str") =>
                    StmtsOf(script_lines, s, "play") =
                        Flatten([a \in 1..Len(anims) |->
                            PlayOver(anims[a].type,
                                     FirstDeclared(made, anims[a].target.str))])

\* C14: in a scene whose operations have list targets, each operation is one
\* play statement over the first declared match of each element of its
\* target, in the order of the elements.
C14_ListPlaysFirstMatches ==
    cpc # "parsed" =>
        \A s \in 1..Len(storyboard.scenes) :
            LET anims == storyboard.scenes[s].animations
                made == StmtsOf(script_lines, s, "create")
            IN  (\A a \in 1..Len(anims) : anims[a].target.kind = "list") =>
                    StmtsOf(script_lines, s, "play") =
                        Flatten([a \in 1..Len(anims) |->
                            PlayOver(anims[a].type,
                                Flatten([e \in 1..Len(anims[a].target.list) |->
                                    FirstDeclared(made, anims[a].target.list[e])]))])

\* The target of the operation names no declared object of the scene.
Unmatched(anim, mobjects, idx) ==
    LET declared(t) == \E i \in 1..Len(mobjects) :
                           mobjects[i].type = t \/ MobjName(mobjects[i], idx, i) = t
    IN  CASE anim.target.kind = "str" -> ~declared(anim.target.str)
          [] anim.target.kind = "list" ->
                \A e \in 1..Len(anim.target.list) : ~declared(anim.target.list[e])
          [] OTHER -> FALSE

\* The storyboard without the operations that name no declared object.
WithoutUnmatched(sb) ==
    [sb EXCEPT !.scenes =
        [s \in 1..Len(sb.scenes) |->
            [sb.scenes[s] EXCEPT !.animations =
                SelectSeq(sb.scenes[s].animations,
                          LAMBDA a : ~Unmatched(a, sb.scenes[s].mobjects, s))]]]

\* C15: the compiler returns a script for every storyboard; an operation
\* whose target names no declared object leaves no statement in it, and the
\* script is, statement for statement, the script of the storyboard without
\* such operations.
C15_UnmatchedDropped ==
    cpc # "parsed" =>
        /\ script_lines = storyboard_to_manim_code(WithoutUnmatched(storyboard))
        /\ \A s \in 1..Len(storyboard.scenes) :
              LET anims == storyboard.scenes[s].animations
                  mobjects == storyboard.scenes[s].mobjects
                  plays == StmtsOf(script_lines, s, "play")
              IN  /\ Len(plays) <= Cardinality({a \in 1..Len(anims) :
                                                  ~Unmatched(anims[a], mobjects, s)})
                  /\ Len(StmtsOf(script_lines, s, "create")) = Len(mobjects)
                  /\ Len(StmtsOf(script_lines, s, "wait")) = 1
                  /\ \A p \in 1..Len(plays) :
                        \A n \in 1..Len(plays[p].args) :
                            \E i \in 1..Len(mobjects) :
                                MobjName(mobjects[i], s, i) = plays[p].args[n]

C15_Witness ==
    /\ cpc = "compiled"
    /\ storyboard.scenes[1].mobjects = <<Mobj(<<"Circle">>, <<>>)>>
    /\ storyboard.scenes[1].animations =
          << Anim(<<"FadeIn">>, StrTarget(<<"Triangle">>)),
             Anim(<<"FadeIn">>, StrTarget(<<"Circle">>)) >>
    /\ StmtsOf(script_lines, 1, "play") =
          <<Line("play", <<>>, <<"FadeIn">>, <<>>, <<<<"circle", "1", "_", "1">>>>, 0, 0)>>

\* C16: the keyword arguments of every construction statement are the
\* items of the object's kwargs whose key is in the whitelist, each with
\* the value it was given; an item with any other key is in no statement.
C16_KwargsWhitelisted ==
    cpc # "parsed" =>
        \A s \in 1..Len(storyboard.scenes) :
            LET made == StmtsOf(script_lines, s, "create")
                mobjects == storyboard.scenes[s].mobjects
            IN  /\ Len(made) = Len(mobjects)
                /\ \A i \in 1..Len(made) :
                      /\ \A it \in Range(made[i].kwargs) :
                            it.key \in allowed_keys /\ it \in Range(mobjects[i].kwargs)
                      /\ \A it \in Range(mobjects[i].kwargs) :
                            it.key \in allowed_keys <=> it \in Range(made[i].kwargs)
                      /\ Len(made[i].kwargs) <= Len(mobjects[i].kwargs)

C16_Witness ==
    /\ cpc = "compiled"
    /\ Len(storyboard.scenes) = 1
    /\ storyboard.scenes[1].mobjects =
          <<Mobj(<<"Circle">>, <<NumItem("radius", 4), NumItem("bogus", 1)>>)>>
    /\ StmtsOf(script_lines, 1, "create") =
          <<Line("create", <<"circle", "1", "_", "1">>, <<"Circle">>,
                 <<NumItem("radius", 4)>>, <<>>, 0, 0)>>

\* ------------------------------------------------------------------------
\* The validator (pipeline.py)
\* ------------------------------------------------------------------------
\* validate_storyboard has run on the parsed value.
Validated == parsed # NoValue /\ ppc \notin {"idle", "generate", "validate"}

\* The value is a dict whose "scenes" is a list.
HasSceneList(v) ==
    v.tag = "dict" /\ DictHas(v, "scenes") /\ DictGet(v, "scenes").tag = "list"

\* The scenes of the value, none when it has no list of scenes.
ScenesIn(v) == IF HasSceneList(v) THEN DictGet(v, "scenes").elems ELSE <<>>

\* The keys of a dict, in order.
KeysOf(d) == [i \in 1..Len(d.fields) |-> d.fields[i].key]

\* C17: a parsed value that is no dict, or whose "scenes" is missing or no
\* list, makes validate_storyboard raise; no storyboard comes of it.
C17_MalformedRejected ==
    (Validated /\ ~HasSceneList(parsed)) =>
        /\ ppc = "raised"
        /\ p_raised # "none"
        /\ p_storyboard = NoValue

\* C18: every scene of the storyboard validate_storyboard returned is a
\* dict whose "mobjects" and "animations" are lists, the empty list where
\* the parsed scene had no such item; and validate_storyboard returns
\* whenever the scenes are a list of dicts, with or without the two items.
C18_ScenesHaveSequences ==
    Validated =>
        /\ p_storyboard # NoValue =>
              /\ Len(ScenesIn(p_storyboard)) = Len(ScenesIn(parsed))
              /\ \A i \in 1..Len(ScenesIn(p_storyboard)) :
                    LET out == ScenesIn(p_storyboard)[i]
                        in == ScenesIn(parsed)[i]
                    IN  /\ out.tag = "dict"
                        /\ \A key \in {"mobjects", "animations"} :
                              /\ DictHas(out, key)
                              /\ DictGet(out, key).tag = "list"
                              /\ ~DictHas(in, key) => DictGet(out, key) = JList(<<>>)
        /\ (HasSceneList(parsed) /\ \A i \in 1..Len(ScenesIn(parsed)) :
                                        ScenesIn(parsed)[i].tag = "dict") =>
              p_storyboard # NoValue /\ p_raised = "none"

C18_Witness ==
    /\ ppc = "script"
    /\ ScenesIn(parsed) = <<JDict(<<Field("narration", JStr(<<"x">>))>>)>>
    /\ ScenesIn(p_storyboard) =
          <<JDict(<<Field("narration", JStr(<<"x">>)),
                    Field("mobjects", JList(<<>>)),
                    Field("animations", JList(<<>>))>>)>>

\* C19 as stated: every item present in the parsed value, at the top or in
\* a scene, has the same value in the returned storyboard.
C19_PresentValuesKept ==
    (Validated /\ p_storyboard # NoValue) =>
        /\ \A f \in Range(parsed.fields) :
              f.key # "scenes" => DictGet(p_storyboard, f.key) = f.val
        /\ ~HasSceneList(parsed) => p_storyboard = parsed
        /\ \A i \in 1..Len(ScenesIn(parsed)) :
              \A f \in Range(ScenesIn(parsed)[i].fields) :
                  DictGet(ScenesIn(p_storyboard)[i], f.key) = f.val

\* The item is a scene's "mobjects" or "animations" and holds no list.
Replaced(f) == f.key \in {"mobjects", "animations"} /\ f.val.tag # "list"

\* C19 amended: validate_storyboard sets a scene's "mobjects" and
\* "animations" to the empty list when the item is missing or holds
\* anything but a list, and changes nothing else: the other items of the
\* scene, the two items when they hold a list, the order of the items
\* present, the number and order of the scenes and the items of the top
\* level are as parsed.
C19_OnlyNonListsReplaced ==
    (Validated /\ p_storyboard # NoValue) =>
        /\ KeysOf(p_storyboard) = KeysOf(parsed)
        /\ \A f \in Range(parsed.fields) :
              f.key # "scenes" => DictGet(p_storyboard, f.key) = f.val
        /\ ~HasSceneList(parsed) => p_storyboard = parsed
        /\ Len(ScenesIn(p_storyboard)) = Len(ScenesIn(parsed))
        /\ \A i \in 1..Len(ScenesIn(parsed)) :
              LET in == ScenesIn(parsed)[i]
                  out == ScenesIn(p_storyboard)[i]
              IN  /\ IsPrefix(KeysOf(in), KeysOf(out))
                  /\ Range(KeysOf(out)) = Range(KeysOf(in)) \cup {"mobjects", "animations"}
                  /\ Len(KeysOf(out)) = Cardinality(Range(KeysOf(out)))
                  /\ \A f \in Range(in.fields) :
                        DictGet(out, f.key) = IF Replaced(f) THEN JList(<<>>) ELSE f.val

C19_Witness ==
    /\ ppc = "script"
    /\ ScenesIn(parsed) =
          <<JDict(<<Field("narration", JStr(<<"x">>)),
                    Field("mobjects", JStr(<<"Circle">>)),
                    Field("animations", SomeAnimations)>>)>>
    /\ ScenesIn(p_storyboard) =
          <<JDict(<<Field("narration", JStr(<<"x">>)),
                    Field("mobjects", JList(<<>>)),
                    Field("animations", SomeAnimations)>>)>>

\* ------------------------------------------------------------------------
\* The retry budgets (pipeline.py, pipeline_with_audio.py, pipeline_new.py,
\* app.py)
\* ------------------------------------------------------------------------
\* Every program that asks the text model again has ended.
RetryTerminated ==
    /\ pc \in {"idle", "exit", "raised"}
    /\ ppc \in {"idle", "exit", "raised"}
    /\ apc \in {"idle", "returned", "raised"}
    /\ npc \in {"idle", "exit"}

\* C20: the storyboard loops of pipeline.py and pipeline_with_audio.py and
\* the script loop of pipeline_new.py make at most MAX_RETRIES requests and
\* the repair loop of app.py at most max_retries correction requests; a
\* loop that has used its budget asks for nothing more; and every run ends,
\* whatever the text model returns.
C20_RetriesBounded ==
    /\ [](/\ p_calls <= MAX_RETRIES
          /\ a_calls <= AUDIO_MAX_RETRIES
          /\ n_calls <= NEW_MAX_RETRIES
          /\ attempt <= max_retries
          /\ ppc = "generate" => p_calls < MAX_RETRIES
          /\ apc = "request" => a_calls < AUDIO_MAX_RETRIES
          /\ npc = "generate" => n_calls < NEW_MAX_RETRIES
          /\ pc = "debug_parse" => attempt <= max_retries /\ Len(prompt.error_history) = attempt)
    /\ [][/\ p_calls' \in {p_calls, p_calls + 1}
          /\ a_calls' \in {a_calls, a_calls + 1}
          /\ n_calls' \in {n_calls, n_calls + 1}
          /\ attempt' \in {attempt, attempt + 1}]_vars
    /\ <>[]RetryTerminated

C20_Witness ==
    /\ ppc = "exit"
    /\ p_calls = MAX_RETRIES
    /\ p_attempt = MAX_RETRIES
    /\ parsed = NoValue
    /\ p_saved = <<>>

\* ------------------------------------------------------------------------
\* Validation errors and the storyboard loop (pipeline.py)
\* ------------------------------------------------------------------------
\* C21: when validate_storyboard raises and the loop has attempts left,
\* main asks for another storyboard, the attempt counted, and the run goes on.
C21_ValidationErrorRetries ==
    [][(/\ ppc = "validate"
        /\ validate_storyboard(parsed).raised # "none"
        /\ ~RangeEnds(p_attempt, MAX_RETRIES)) =>
            /\ ppc' = "generate"
            /\ p_attempt' = p_attempt + 1
            /\ p_raised' = "none"]_vars

\* ------------------------------------------------------------------------
\* Rows of the layout (script_with_noobject.py)
\* ------------------------------------------------------------------------
\* The arguments the script constructs the object with.
KwargsOf(lines, name) ==
    SelectSeq(lines, LAMBDA l : l.stmt = "create" /\ l.name = name)[1].kwargs

\* The radius if given, else the side length if given, else 1 (in halves).
RadiusOrSide(kwargs) ==
    IF HasKey(kwargs, "radius") THEN ItemOf(kwargs, "radius").num
    ELSE IF HasKey(kwargs, "side_length") THEN ItemOf(kwargs, "side_length").num
    ELSE 2

\* The radius, side length or height, whichever is given first in that
\* order, else 1 (in halves).
DominantSize(kwargs) ==
    IF HasKey(kwargs, "radius") THEN ItemOf(kwargs, "radius").num
    ELSE IF HasKey(kwargs, "side_length") THEN ItemOf(kwargs, "side_length").num
    ELSE IF HasKey(kwargs, "height") THEN ItemOf(kwargs, "height").num
    ELSE 2

RECURSIVE SumUpTo(_, _)
SumUpTo(sizes, j) == IF j = 0 THEN 0 ELSE sizes[j] + SumUpTo(sizes, j - 1)

\* The width after the first j objects of a row: each size plus the buffer.
WidthAfter(sizes, j) == SumUpTo(sizes, j) + j

\* The closing condition after the first j objects of a row.
ClosedAfter(sizes, j) ==
    j >= MAX_ROW_OBJECTS \/ WidthAfter(sizes, j) > 2 * ROW_WIDTH_LIMIT

HasScale(lines, name) == \E i \in 1..Len(lines) : lines[i].stmt = "scale" /\ lines[i].name = name

\* The sizes of a row's objects, each read off its construction.
CodeSizes(lines, row) == [i \in 1..Len(row) |-> RadiusOrSide(KwargsOf(lines, row[i]))]

RECURSIVE TotalLen(_)
TotalLen(rows) == IF rows = <<>> THEN 0 ELSE Len(Head(rows)) + TotalLen(Tail(rows))

\* Six objects of size 3 in one scene.
SixOfSizeThree ==
    [title |-> <<"Demo">>,
     scenes |-> <<SceneOf([i \in 1..(MAX_ROW_OBJECTS + 1) |->
                              Mobj(<<"Circle">>, <<NumItem("radius", 6)>>)], <<>>)>>]

\* C22: every object is in a row; a row goes on while neither its count
\* has reached MAX_ROW_OBJECTS nor its width (sizes plus buffers) exceeded
\* ROW_WIDTH_LIMIT, and every row but the last ends where one of the two
\* happens, so no row holds more than MAX_ROW_OBJECTS objects; six objects
\* of size 3 make two rows, the first scaled down, the second not scaled.
C22_RowsCloseAtLimit ==
    cpc # "parsed" =>
        LET rows == RowsOf(script_lines)
        IN  /\ TotalLen(rows) = Len(StmtsOf(script_lines, 1, "create"))
            /\ \A r \in 1..Len(rows) :
                  LET sizes == CodeSizes(script_lines, rows[r])
                  IN  /\ Len(rows[r]) <= MAX_ROW_OBJECTS
                      /\ \A j \in 1..(Len(rows[r]) - 1) : ~ClosedAfter(sizes, j)
                      /\ r < Len(rows) => ClosedAfter(sizes, Len(rows[r]))
            /\ storyboard = SixOfSizeThree =>
                  /\ Len(rows) = 2
                  /\ \A i \in 1..Len(rows[1]) :
                        /\ HasScale(script_lines, rows[1][i])
                        /\ ScaleOf(script_lines, rows[1][i]).num
                              < ScaleOf(script_lines, rows[1][i]).den
                  /\ \A i \in 1..Len(rows[2]) : ~HasScale(script_lines, rows[2][i])

C22_Witness ==
    /\ cpc = "compiled"
    /\ storyboard = SixOfSizeThree
    /\ Len(RowsOf(script_lines)) = 2
    /\ Len(RowsOf(script_lines)[1]) + Len(RowsOf(script_lines)[2]) = MAX_ROW_OBJECTS + 1

\* The positioning statements of a script.
Positionings(lines) == SelectSeq(lines, LAMBDA l : l.stmt \in {"to_edge", "next_to"})

\* The last statements of lines position row: its first object to the
\* edge, each next one beside its predecessor.
PositionedLast(lines, row) ==
    LET n == Len(lines) - Len(row)
    IN  /\ n >= 0
        /\ \A i \in 1..Len(row) :
              /\ lines[n + i].name = row[i]
              /\ IF i = 1 THEN lines[n + i].stmt = "to_edge"
                 ELSE lines[n + i].stmt = "next_to" /\ lines[n + i].args = <<row[i - 1]>>

\* C23: a scale statement is about an object of a row that ended on the
\* count or width condition; a row that ended on neither is the last of
\* its scene, none of its objects has a scale statement, and it is
\* positioned: first object to the edge, each next beside its predecessor.
C23_ScaleOnlyClosedRows ==
    cpc # "parsed" =>
        LET rows == RowsOf(script_lines)
            closed(r) == ClosedAfter(CodeSizes(script_lines, rows[r]), Len(rows[r]))
        IN  /\ \A i \in 1..Len(script_lines) :
                  script_lines[i].stmt = "scale" =>
                      \E r \in 1..Len(rows) :
                          /\ script_lines[i].name \in Range(rows[r])
                          /\ closed(r)
            /\ \A r \in 1..Len(rows) :
                  ~closed(r) =>
                      /\ r = Len(rows)
                      /\ \A i \in 1..Len(rows[r]) : ~HasScale(script_lines, rows[r][i])
                      /\ PositionedLast(Positionings(script_lines), rows[r])

C23_Witness ==
    /\ cpc = "compiled"
    /\ Len(RowsOf(script_lines)) = 2
    /\ HasScale(script_lines, RowsOf(script_lines)[1][1])
    /\ Len(RowsOf(script_lines)[2]) = 2
    /\ ~ClosedAfter(CodeSizes(script_lines, RowsOf(script_lines)[2]), 2)
    /\ ~HasScale(script_lines, RowsOf(script_lines)[2][2])

\* The rows of the script are the rows the accumulator makes when each
\* object adds Size plus the buffer: the width stays within the budget
\* before a row's last object, a scaled row has the factor of its whole
\* width, and a row with no scale statement is within the budget.
WidthsAgree(lines, Size(_)) ==
    \A r \in 1..Len(RowsOf(lines)) :
        LET row == RowsOf(lines)[r]
            sizes == [i \in 1..Len(row) |-> Size(KwargsOf(lines, row[i]))]
        IN  /\ \A j \in 1..(Len(row) - 1) : WidthAfter(sizes, j) <= 2 * ROW_WIDTH_LIMIT
            /\ IF HasScale(lines, row[1])
                 THEN ScaleOf(lines, row[1]) = ScaleFactor(WidthAfter(sizes, Len(row)))
                 ELSE WidthAfter(sizes, Len(row)) <= 2 * ROW_WIDTH_LIMIT

\* C24 (as the code has it): each object adds its radius if it has one,
\* else its side length if it has one, else 1, plus the buffer; a height
\* adds nothing of its own.
C24_WidthAddsRadiusOrSide ==
    cpc # "parsed" => WidthsAgree(script_lines, RadiusOrSide)

\* C24 (as stated): each object adds its radius, side length or height,
\* else 1, plus the buffer, so an object with a height only adds its height.
C24_WidthAddsDominantSize ==
    cpc # "parsed" => WidthsAgree(script_lines, DominantSize)

\* Objects with a height only fill a whole row that their heights would
\* have closed earlier.
C24_Witness ==
    /\ cpc = "compiled"
    /\ Len(RowsOf(script_lines)) = 1
    /\ Len(RowsOf(script_lines)[1]) = MAX_ROW_OBJECTS
    /\ \A i \in 1..MAX_ROW_OBJECTS :
          LET kwargs == KwargsOf(script_lines, RowsOf(script_lines)[1][i])
          IN  HasKey(kwargs, "height") /\ RadiusOrSide(kwargs) # DominantSize(kwargs)

\* ------------------------------------------------------------------------
\* Trailing commas and fences in the sanitizer's output (pipeline.py)
\* ------------------------------------------------------------------------
\* A comma at i with nothing but whitespace between it and a closing
\* bracket or brace.
TrailingCommaAt(text, i) ==
    /\ text[i] = ","
    /\ SkipSpaces(text, i + 1) <= Len(text)
    /\ text[SkipSpaces(text, i + 1)] \in {"]", "}"}

\* C25: the text fix_gemini_json returns has no comma that is followed,
\* whitespace apart, by a closing bracket or brace.
C25_NoTrailingComma ==
    spc # "raw" => \A i \in 1..Len(cleaned) : ~TrailingCommaAt(cleaned, i)

\* ------------------------------------------------------------------------
\* What pipeline_new.py writes and renders
\* ------------------------------------------------------------------------
\* C28: the script written to generated_script.py, and the one handed to
\* the renderer, passed the check `"class" in s and "Scene" in s`; a run
\* whose MAX_RETRIES answers all failed it writes and renders nothing.
C28_OnlyValidWritten ==
    /\ n_saved # <<>> => LooksLikeManim(n_saved[1])
    /\ n_rendered # <<>> => LooksLikeManim(n_rendered[1].script)

\* ------------------------------------------------------------------------
\* When corrections are asked for (app.py)
\* ------------------------------------------------------------------------
\* The step issues a correction request.
Requests == attempt' # attempt

\* C29: a correction request is issued only when the latest execution
\* failed, and carries the source that execution ran; an initial execution
\* that succeeds leaves the run with no request made, and after a
\* successful execution there is no further request and no execution.
C29_RequestsFollowFailures ==
    /\ []((execs = 1 /\ last_exec.result = "ok") => (attempt = 0 /\ prompt = NoPrompt))
    /\ [][/\ Requests => /\ last_exec.result = "Exception"
                         /\ prompt'.current_code = last_exec.code
          /\ last_exec.result = "ok" => /\ ~Requests
                                        /\ prompt' = prompt
                                        /\ execs' = execs]_vars

\* A second request, made for the repaired source that failed in its turn.
C29_Witness ==
    /\ pc = "debug_parse"
    /\ attempt = 2
    /\ last_exec.result = "Exception"
    /\ last_exec.code # script_code
    /\ prompt.current_code = last_exec.code

\* ------------------------------------------------------------------------
\* Placement of a scene's objects (script_with_noobject.py)
\* ------------------------------------------------------------------------
\* The indexes, within the scene's statements, of the statements of the
\* given kinds.
IndexesOf(lines, kinds) ==
    SelectSeq([i \in 1..Len(lines) |-> i], LAMBDA i : lines[i].stmt \in kinds)

\* C30: in every scene the positioning statements are as many as the
\* declared objects and name them in declaration order, one each: to_edge
\* for the first object of a row, next_to the object just before it in the
\* row otherwise; the rows, one after the other, are the declared objects
\* in their order; and every construction and positioning statement of the
\* scene comes before every play statement of the scene.
C30_ObjectsPlacedOnce ==
    cpc # "parsed" =>
        \A s \in 1..Len(storyboard.scenes) :
            LET lines == SceneLines(script_lines, s)
                mobjects == storyboard.scenes[s].mobjects
                names == [i \in 1..Len(mobjects) |-> MobjName(mobjects[i], s, i)]
                placed == Positionings(lines)
                rows == RowsOf(lines)
            IN  /\ Len(placed) = Len(mobjects)
                /\ Flatten(rows) = names
                /\ \A i \in 1..Len(placed) :
                      /\ placed[i].name = names[i]
                      /\ i = 1 => placed[i].stmt = "to_edge"
                      /\ placed[i].stmt = "next_to" => placed[i].args = <<names[i - 1]>>
                /\ \A i \in Range(IndexesOf(lines, {"create", "to_edge", "next_to"})) :
                      \A j \in Range(IndexesOf(lines, {"play"})) : i < j

\* A scene compiled after another one, with two rows, objects sharing a
\* name, and a play statement.
C30_Witness ==
    /\ cpc = "compiled"
    /\ Len(storyboard.scenes) = 2
    /\ LET lines == SceneLines(script_lines, 2)
       IN  /\ Len(RowsOf(lines)) = 2
           /\ Len(RowsOf(lines)[2]) >= 2
           /\ \E i, j \in 1..Len(Positionings(lines)) :
                 i # j /\ Positionings(lines)[i].name = Positionings(lines)[j].name
           /\ IndexesOf(lines, {"play"}) # <<>>

\* ------------------------------------------------------------------------
\* Fences in the model's text (pipeline.py, script_with_noobject.py)
\* ------------------------------------------------------------------------
Least(S) == CHOOSE x \in S : \A y \in S : x <= y
Greatest(S) == CHOOSE x \in S : \A y \in S : y <= x

\* The places where pat occurs in text at or after from.
Occurrences(text, pat, from) == {i \in from..Len(text) : OccursAt(text, pat, i)}

\* The text has three backquotes and "json", and three backquotes after.
HasJsonFence(text) ==
    \E i \in Occurrences(text, OpenFence, 1) :
        Occurrences(text, CloseFence, i + Len(OpenFence)) # {}

\* What is between the first such opening and the first closing after it,
\* without the whitespace around it.
InsideJsonFence(text) ==
    LET i == Least(Occurrences(text, OpenFence, 1))
        j == Least(Occurrences(text, CloseFence, i + Len(OpenFence)))
    IN  Strip(SubSeq(text, i + Len(OpenFence), j - 1))

\* The text has three backquotes, and three backquotes after them.
HasFence(text) ==
    \E i \in Occurrences(text, CloseFence, 1) :
        Occurrences(text, CloseFence, i + Len(CloseFence)) # {}

\* What is between the first three backquotes, with their json tag if they
\* have one, and the next three, without the whitespace around it.
InsideFence(text) ==
    LET i == Least(Occurrences(text, CloseFence, 1))
        start == IF OccursAt(text, OpenFence, i)
                   THEN i + Len(OpenFence) ELSE i + Len(CloseFence)
        j == Least(Occurrences(text, CloseFence, start))
    IN  Strip(SubSeq(text, start, j - 1))

\* The text has a "{" and a "}" after it.
HasBraces(text) ==
    \E i, j \in 1..Len(text) : i < j /\ text[i] = "{" /\ text[j] = "}"

\* From the first "{" to the last "}".
BraceSpan(text) ==
    SubSeq(text, Least({i \in 1..Len(text) : text[i] = "{"}),
                 Greatest({j \in 1..Len(text) : text[j] = "}"}))

\* The steps of fix_gemini_json after the fence.
AfterFence(text) == Balance(StripControl(RemoveTrailingCommas(TuplesToLists(text))))

\* C26 (as the code has it): with a fence opened by three backquotes and
\* "json", both functions go on with what is inside it, stripped; a fence
\* without the tag is no fence to them. Without one, fix_gemini_json goes
\* on with the text unchanged, and extract_json returns the text from the
\* first "{" to the last "}" if there is one, else the text, stripped.
C26_JsonFenceExtracted ==
    /\ spc # "raw" =>
          cleaned = AfterFence(IF HasJsonFence(raw) THEN InsideJsonFence(raw) ELSE raw)
    /\ fpc = "extracted" =>
          extracted = IF HasJsonFence(storyboard_text) THEN InsideJsonFence(storyboard_text)
                      ELSE IF HasBraces(storyboard_text)
                        THEN Strip(BraceSpan(storyboard_text))
                      ELSE Strip(storyboard_text)

\* C26 (as stated): with a fence, tagged json or not, both functions go on
\* with what is inside it; without one, with the text unchanged.
C26_AnyFenceExtracted ==
    /\ spc # "raw" =>
          cleaned = AfterFence(IF HasFence(raw) THEN InsideFence(raw) ELSE raw)
    /\ fpc = "extracted" =>
          extracted = IF HasFence(storyboard_text) THEN InsideFence(storyboard_text)
                      ELSE storyboard_text

\* A json fence around one character, taken out by fix_gemini_json.
C26_Witness ==
    /\ spc = "cleaned"
    /\ HasJsonFence(raw)
    /\ InsideJsonFence(raw) = <<"a">>
    /\ cleaned = <<"a">>

\* ------------------------------------------------------------------------
\* The class lists read from the file (load_allowed_classes)
\* ------------------------------------------------------------------------
\* The first column of the row, without the whitespace around it; empty
\* for a row with no column.
FirstColumn(row) == IF row = <<>> THEN <<>> ELSE Strip(row[1])

\* The section a row opens, whatever the case of its letters; "None" for
\* a row that opens none.
SectionOf(row) ==
    CASE LowerText(FirstColumn(row)) = MobjectsHeader -> "Mobject"
      [] LowerText(FirstColumn(row)) = AnimationsHeader -> "Animation"
      [] LowerText(FirstColumn(row)) = ScenesHeader -> "Scene"
      [] OTHER -> "None"

\* The row heads the columns: its first column has "class name" in it.
IsColumnHeader(row) ==
    Occurrences(LowerText(FirstColumn(row)), ClassNameHeader, 1) # {}

\* The row names a class.
IsNameRow(row) ==
    FirstColumn(row) # <<>> /\ SectionOf(row) = "None" /\ ~IsColumnHeader(row)

\* The section open at row i: that of the last section header before it.
SectionAt(rows, i) ==
    LET headers == {j \in 1..(i - 1) : SectionOf(rows[j]) # "None"}
    IN  IF headers = {} THEN "None" ELSE SectionOf(rows[Greatest(headers)])

\* C27: a name is in a set of the loaded lists exactly when some row that
\* is neither empty in its first column, nor a section header in any
\* spelling of its letters, nor a column header, has it as its first
\* column, and the last section header before that row is the set's; so a
\* name before every section header is in no set.
C27_NamesUnderLastHeader ==
    fpc = "call" =>
        \A t \in DOMAIN allowed_classes :
            allowed_classes[t] =
                { FirstColumn(csv_rows[i]) :
                    i \in {k \in 1..Len(csv_rows) :
                              IsNameRow(csv_rows[k]) /\ SectionAt(csv_rows, k) = t} }

\* A name before the first header, a header in capitals, a name after it.
C27_Witness ==
    /\ fpc = "call"
    /\ Len(csv_rows) = MaxRows
    /\ IsNameRow(csv_rows[1])
    /\ SectionOf(csv_rows[2]) = "Animation"
    /\ csv_rows[2][1] # LowerText(csv_rows[2][1])
    /\ IsNameRow(csv_rows[3])
    /\ allowed_classes.Animation = {FirstColumn(csv_rows[3])}
    /\ allowed_classes.Mobject = {}
    /\ allowed_classes.Scene = {}

=============================================================================
